---- MODULE Spec2Model ----
(***************************************************************************)
(* Orchestration layer of the smart security system:                       *)
(*   - SystemManager (src/src/core/system_manager.py): the alarm state     *)
(*     machine, arm/disarm and the two-stage detection loop;               *)
(*   - AlertManager (src/src/alerts/alert_manager.py): the priority queue  *)
(*     with its cooldown gate and consumer loop.                           *)
(*   - Camera (src/src/hardware/camera.py): device selection, the producer  *)
(*     thread, the frame buffer and stop();                                 *)
(*   - YOLODetector (src/src/detection/yolo_detector.py): detection type    *)
(*     and alert level of a frame.                                          *)
(* Spec       is the SystemManager with its detection threads.             *)
(* SpecFault  is Spec with library calls that can raise.                   *)
(* SpecAlert  is the AlertManager with its consumer thread and a clock.    *)
(* SpecAdd    is the AlertManager with concurrent add_alert callers.       *)
(* SpecLive   is the AlertManager with an accepting sink, under fairness.  *)
(* SpecCamera is the Camera with its producer thread and one reader.       *)
(* SpecStart  is Camera.start() over every behaviour of the devices.       *)
(* SpecStop   is SpecCamera with stop() and its bounded join.              *)
(* SpecYolo   is YOLODetector.detect() over every small frame.             *)
(* SpecCancel is the SystemManager with fairly scheduled threads.          *)
(* SpecBot    is Spec with a notification bot attached to the manager.     *)
(* SpecSnapshot is Spec with _process_detection taken statement by         *)
(*            statement.                                                   *)
(* SpecCache  is one detection thread over six identity checks.            *)
(* SpecRestart is the AlertManager with one stop(), under fairness.        *)
(* SpecViewer is the detection thread fed from the Camera, with readers    *)
(*            calling get_current_frame().                                 *)
(***************************************************************************)
EXTENDS Integers, Sequences, FiniteSets, TLC

\* ------------------------------------------------------------------ bounds
MaxThreads == 2     \* detection-loop threads alive at the same time
MaxFrames  == 2     \* frames fetched successfully over one run
MaxChecks  == 1     \* identity checks started over one run
MaxViewerFailing == 2 \* failed fetches in a row over one run of the viewer model
MaxCacheFailing == 1 \* failed fetches in a row over one run of the cache model
MaxCacheChecks == 6 \* identity checks (and frames) over one run of the cache model
MaxFailing == 1     \* threads inside a run of failed fetches at the same time
MaxCount   == 1     \* persons / animals the primary classifier reports
MaxFaces   == 1     \* authorized / unknown faces the identity classifier reports
Epoch      == 3     \* clock tick at which the run starts
MaxTime    == 4     \* last clock tick of a run
TickLen    == 10    \* seconds per clock tick
MaxAlerts  == 3     \* alerts added to the AlertManager over one run
MaxAlertTime == 7   \* last clock tick of an AlertManager run
MaxCallers == 2     \* threads calling add_alert at the same time
MaxIndex   == 5     \* highest camera device index of the machine
MaxBoxes   == 3     \* boxes in one frame given to detect()
MaxInferences == 2  \* detect() calls that reach the end of the inference
MaxCaptured == 4    \* frames the camera device delivers over one run

\* ------------------------------------------------- program constants
max_empty_frames  == 10   \* consecutive failed fetches that stop the loop
snapshot_cooldown == 10   \* seconds between two person snapshots
MaxCache          == 5    \* identity results kept in face_recognition_results
alert_cooldown    == 30   \* settings.alert_cooldown, seconds between two alerts

None     == "None"   \* a missing object or return value
NoThread == 0        \* self.detection_thread is None
NoResult == <<>>     \* no identity result
NoTime   == 0 - 1    \* self.last_alert_time is None
NoAlert  == [id |-> 0, level |-> "NONE"]   \* the consumer holds no alert
NoCount  == 0 - 1    \* a caller of add_alert that has not read alert_count
alert_manager == FALSE   \* self.alert_manager is None: never constructed
ProbeCount == 5      \* start() probes the indices range(5)
maxsize    == 2      \* Queue(maxsize=2): capacity of the frame buffer
NoIndex    == 0 - 1  \* no camera index / self.capture is None
NoFrame    == 0      \* frame is None
PERSON_CLASS == 0    \* YOLODetector.PERSON_CLASS
ANIMAL_CLASSES == 15..23   \* YOLODetector.ANIMAL_CLASSES

SystemState == {"DISARMED", "ARMED", "ALARM", "ERROR"}

\* AlertLevel and its values
AlertLevel == {"NONE", "LOW", "HIGH", "CRITICAL"}

LevelValue(level) ==
  CASE level = "NONE" -> 0
    [] level = "LOW" -> 1
    [] level = "HIGH" -> 2
    [] level = "CRITICAL" -> 3

Threads  == 1..MaxThreads
FrameIds == 1..MaxCacheChecks
Callers  == 1..MaxCallers

VARIABLES
  \* SystemManager fields
  state,                       \* self.state
  yolo_loaded,                 \* self.yolo_detector and self.yolo_detector.model_loaded
  face_detector,               \* self.face_detector is not None
  detection_thread,            \* self.detection_thread: None or a thread
  stop_event,                  \* self.stop_event
  latest_annotated_frame,      \* self.latest_annotated_frame
  last_person_snapshot_time,   \* self.last_person_snapshot_time
  last_animal_snapshot_time,   \* self.last_animal_snapshot_time
  total_detections,            \* self.total_detections
  person_detections,           \* self.person_detections
  animal_detections,           \* self.animal_detections
  face_recognition_results,    \* self.face_recognition_results {frame_id: result}
  \* detection threads: position and locals of _detection_loop
  pc,                          \* pc[t]: "unstarted","head","fetch","detect","wait","process","done"
  consecutive_empty_frames,    \* local of _detection_loop
  detection_result,            \* local: <<person_count, animal_count>>
  frame_id,                    \* local: request id of the identity check
  face_result,                 \* local: None or <<authorized_count, unknown_count>>
  \* short-lived workers and the environment
  face_tasks,                  \* request ids whose identity thread is running
  snapshot_writes,             \* snapshot writer threads spawned, per category
  frames_read,                 \* frames handed out by the camera so far
  face_checks,                 \* identity checks started so far (orders the request ids)
  clock,                       \* last reading of time.time(), in ticks
  \* the API callers
  disarm_pc,                   \* "idle" or "join": a disarm() waiting in join()
  last_call,                   \* the most recent operation, its pre-state and result
  \* AlertManager fields
  telegram_bot,                \* self.telegram_bot is not None
  queue,                       \* self.queue: the alerts in the PriorityQueue
  last_alert_time,             \* self.last_alert_time, in ticks
  alert_count,                 \* self.alert_count
  alerts_sent,                 \* self.alerts_sent
  alerts_dropped,              \* self.alerts_dropped
  am_stop_event,               \* self.stop_event of the AlertManager
  \* the consumer thread: position and locals of _process_loop
  am_pc,                       \* "none", "get", "check", "send", "done"
  alert,                       \* local: the alert taken from the queue
  send_start,                  \* tick at which the current send_alert call started
  deliveries,                  \* successful deliveries: <<start, recorded>> in ticks
  am_clock,                    \* datetime.now(), in ticks
  puts,                        \* alerts put into the queue by add_alert so far
  add_local,                   \* add_alert callers: the alert_count read, or NoCount
  am_stop_pc,                  \* "idle" or "join": a stop() waiting in join()
  \* Camera fields and its environment
  device,                      \* per device index: "closed", "noframe", "busy" or "ok"
  configured,                  \* the camera index the Camera was constructed with
  camera_index,                \* self.camera_index
  capture,                     \* index self.capture was created for, or NoIndex
  capture_opened,              \* self.capture.isOpened()
  stopped,                     \* self.stopped
  frame_queue,                 \* self.frame_queue, oldest frame first
  frame_count,                 \* self.frame_count
  \* the producer thread: position and local of _capture_loop
  cam_pc,                      \* "none", "read", "reading", "full", "evict", "put", "done"
  frame,                       \* local: the frame read from the device
  captured,                    \* frames the device has delivered so far (numbers the frames)
  got,                         \* the frame the last get_frame returned, or NoFrame
  reads,                       \* frames handed out by get_frame so far
  cam_stop_pc,                 \* position of a stop() call: "idle" or "join"
  \* YOLODetector fields, the class ids of its last input and its last result
  inference_count,             \* self.inference_count
  yolo_person_detections,      \* self.person_detections of the detector
  yolo_animal_detections,      \* self.animal_detections of the detector
  yolo_classes,                \* class ids of the boxes of the last frame, in order
  yolo_result,                 \* the dictionary the last detect() returned
  \* the notification sink as the SystemManager holds it
  system_telegram_bot,         \* SystemManager.telegram_bot is set
  direct_alerts,               \* clock ticks of the send_alert calls made by _process_detection
  \* _process_detection between its cooldown test and the start of the writer
  read_time,                   \* local of each thread: its reading of time.time(), in ticks
  snapshot_spawned             \* per category: the current_time of every writer thread started

sysvars == <<state, yolo_loaded, face_detector, detection_thread, stop_event,
             latest_annotated_frame, last_person_snapshot_time,
             last_animal_snapshot_time, total_detections, person_detections,
             animal_detections, face_recognition_results, pc,
             consecutive_empty_frames, detection_result, frame_id,
             face_result, face_tasks, snapshot_writes,
             frames_read, face_checks, clock, disarm_pc, last_call>>

amvars == <<telegram_bot, queue, last_alert_time, alert_count, alerts_sent,
            alerts_dropped, am_stop_event, am_pc, alert, send_start,
            deliveries, am_clock, puts, add_local, am_stop_pc>>

camvars == <<device, configured, camera_index, capture, capture_opened,
             stopped, frame_queue, frame_count, cam_pc, frame, captured,
             got, reads, cam_stop_pc>>

yolovars == <<inference_count, yolo_person_detections, yolo_animal_detections,
              yolo_classes, yolo_result>>

sinkvars == <<system_telegram_bot, direct_alerts>>

snapvars == <<read_time, snapshot_spawned>>

vars == <<sysvars, amvars, camvars, yolovars, sinkvars, snapvars>>

\* the SystemManager side without the record of the last call
sysrest == <<state, yolo_loaded, face_detector, detection_thread, stop_event,
             latest_annotated_frame, last_person_snapshot_time,
             last_animal_snapshot_time, total_detections, person_detections,
             animal_detections, face_recognition_results, pc,
             consecutive_empty_frames, detection_result, frame_id,
             face_result, face_tasks, snapshot_writes,
             frames_read, face_checks, clock, disarm_pc>>

\* ------------------------------------------------------------ helpers
Min(S) == CHOOSE x \in S : \A y \in S : x <= y

is_alive(t) == t # NoThread /\ pc[t] \notin {"unstarted", "done"}

AliveThreads == {t \in Threads : is_alive(t)}

Call(op, pre, ret, info) == [op |-> op, pre |-> pre, ret |-> ret, info |-> info,
                             after |-> IF op = "arm" /\ last_call.op = "arm"
                                       THEN "arm" ELSE None]

\* YOLODetector.detect, step 5: the detection type from the two counts
DetectionTypeOf(person_count, animal_count) ==
  IF person_count > 0 /\ animal_count > 0 THEN "BOTH"
  ELSE IF person_count > 0 THEN "PERSON"
  ELSE IF animal_count > 0 THEN "ANIMAL"
  ELSE "NONE"

\* an alert level that reports every person as an intruder alone
determine_alert_level_person_first(person_count, animal_count) ==
  IF person_count > 0 THEN "CRITICAL"
  ELSE IF animal_count > 0 THEN "LOW"
  ELSE "NONE"

\* YOLODetector._determine_alert_level
determine_alert_level(person_count, animal_count) ==
  IF person_count > 0 /\ animal_count = 0 THEN "CRITICAL"
  ELSE IF person_count > 0 /\ animal_count > 0 THEN "HIGH"
  ELSE IF person_count = 0 /\ animal_count > 0 THEN "LOW"
  ELSE "NONE"

\* FaceRecognitionDetector.detect: 'authorized_person_detected' of a result
\* <<authorized_count, unknown_count>>; the empty result <<0, 0>> has no such
\* key and reads as False
authorized_person_detected(res) == res[1] > 0

unknown_count(res) == res[2]

\* keys of self.face_recognition_results
CacheKeys(cache) == {k \in FrameIds : cache[k] # NoResult}

\* a store that drops the newest request id when the cache is over its size
CacheStore_drop_newest(cache, id, res) ==
  LET stored == [cache EXCEPT ![id] = res]
  IN  IF Cardinality(CacheKeys(stored)) > MaxCache
      THEN [stored EXCEPT ![CHOOSE k \in CacheKeys(stored) :
                              \A j \in CacheKeys(stored) : j <= k] = NoResult]
      ELSE stored

\* run_face_recognition_async: store under frame_id, then keep the last 5
CacheStore(cache, id, res) ==
  LET stored == [cache EXCEPT ![id] = res]
  IN  IF Cardinality(CacheKeys(stored)) > MaxCache
      THEN [stored EXCEPT ![Min(CacheKeys(stored))] = NoResult]
      ELSE stored

\* self.alert_manager.queue_alert(...): with no alert manager nothing is
\* queued; AlertManager has no method queue_alert (it defines add_alert), so
\* with one the call raises AttributeError, caught by _process_detection
queue_alert(q, level, person_count) ==
  IF alert_manager THEN q ELSE q

\* -------------------------------------------------------------- Init
\* SystemManager.__init__ and initialize(): disarmed, no thread; the two
\* classifiers are loaded or not
InitSys ==
  /\ state = "DISARMED"
  /\ yolo_loaded \in BOOLEAN
  /\ face_detector \in BOOLEAN
  /\ detection_thread = NoThread
  /\ stop_event = FALSE
  /\ latest_annotated_frame = None
  /\ last_person_snapshot_time = 0
  /\ last_animal_snapshot_time = 0
  /\ total_detections = 0
  /\ person_detections = 0
  /\ animal_detections = 0
  /\ face_recognition_results = [k \in FrameIds |-> NoResult]
  /\ pc = [t \in Threads |-> "unstarted"]
  /\ consecutive_empty_frames = [t \in Threads |-> 0]
  /\ detection_result = [t \in Threads |-> <<0, 0>>]
  /\ frame_id = [t \in Threads |-> 0]
  /\ face_result = [t \in Threads |-> NoResult]
  /\ face_tasks = {}
  /\ snapshot_writes = [c \in {"person", "animal"} |-> 0]
  /\ frames_read = 0
  /\ face_checks = 0
  /\ clock = Epoch
  /\ disarm_pc = "idle"
  /\ last_call = [op |-> "init", pre |-> "DISARMED", ret |-> None, info |-> None,
                  after |-> None]

\* AlertManager.__init__: empty queue, no thread, no previous alert
InitAM ==
  /\ telegram_bot \in BOOLEAN
  /\ queue = {}
  /\ last_alert_time = NoTime
  /\ alert_count = 0
  /\ alerts_sent = 0
  /\ alerts_dropped = 0
  /\ am_stop_event = FALSE
  /\ am_pc = "none"
  /\ alert = NoAlert
  /\ send_start = 0
  /\ deliveries = <<>>
  /\ am_clock = 0
  /\ puts = 0
  /\ add_local = [c \in Callers |-> NoCount]
  /\ am_stop_pc = "idle"

\* the device indices of the machine and what each one does when tried:
\* "closed" does not open, "noframe" opens and returns no frame, "busy" opens
\* and returns a frame but does not open a second time, "ok" does all three
DeviceIndices == 0..MaxIndex

DeviceKinds == {"closed", "noframe", "busy", "ok"}

\* Camera.__init__ once the device behaviour d and the index are fixed:
\* nothing opened, no thread, an empty buffer
InitCam(d, index) ==
  /\ device = d
  /\ configured = index
  /\ camera_index = index
  /\ capture = NoIndex
  /\ capture_opened = FALSE
  /\ stopped = FALSE
  /\ frame_queue = <<>>
  /\ frame_count = 0
  /\ cam_pc = "none"
  /\ frame = NoFrame
  /\ captured = 0
  /\ got = NoFrame
  /\ reads = 0
  /\ cam_stop_pc = "idle"

\* a machine where every device works, camera index 0 (settings default)
InitCamDefault == InitCam([i \in DeviceIndices |-> "ok"], 0)

\* the result dictionary of detect()
DetectResult(type, level, person_count, animal_count) ==
  [type |-> type, alert_level |-> level,
   person_count |-> person_count, animal_count |-> animal_count]

\* YOLODetector.__init__: no inference made, nothing returned yet
InitYolo ==
  /\ inference_count = 0
  /\ yolo_person_detections = 0
  /\ yolo_animal_detections = 0
  /\ yolo_classes = <<>>
  /\ yolo_result = DetectResult(None, None, 0, 0)

\* no thread is inside _process_detection, no snapshot writer was started
InitSnap ==
  /\ read_time = [t \in Threads |-> NoTime]
  /\ snapshot_spawned = [c \in {"person", "animal"} |-> <<>>]

\* SystemManager.__init__: self.telegram_bot = None, and nothing sent
InitSink ==
  /\ system_telegram_bot = FALSE
  /\ direct_alerts = <<>>
  /\ InitSnap

\* the SystemManager alone: its AlertManager is never constructed
Init ==
  /\ InitSys
  /\ InitAM
  /\ telegram_bot = FALSE
  /\ InitCamDefault
  /\ InitYolo
  /\ InitSink

\* the SystemManager with a TelegramBot stored in its telegram_bot attribute
InitBot ==
  /\ InitSys
  /\ InitAM
  /\ telegram_bot = FALSE
  /\ InitCamDefault
  /\ InitYolo
  /\ system_telegram_bot = TRUE
  /\ direct_alerts = <<>>
  /\ InitSnap

\* the AlertManager alone, next to a SystemManager that stays disarmed
InitAlert ==
  /\ InitSys
  /\ yolo_loaded = FALSE
  /\ face_detector = FALSE
  /\ InitAM
  /\ InitCamDefault
  /\ InitYolo
  /\ InitSink

\* ------------------------------------------------------- SystemManager
\* the locals of a detection thread between two iterations
ResetLocals(t) ==
  /\ detection_result' = [detection_result EXCEPT ![t] = <<0, 0>>]
  /\ frame_id' = [frame_id EXCEPT ![t] = 0]
  /\ face_result' = [face_result EXCEPT ![t] = NoResult]

\* arm(): already ARMED returns True at once; otherwise the state becomes
\* ARMED and, with a loaded primary classifier, a new detection thread starts.
\* a check that never finds the system armed
already_armed_never == FALSE

\* arm(), step 1: if self.state == SystemState.ARMED
already_armed == state = "ARMED"

\* a test that takes every system for one with a loaded classifier
classifier_usable_always == TRUE

\* arm(), step 5: if self.yolo_detector and self.yolo_detector.model_loaded
classifier_usable == yolo_loaded

arm ==
  IF already_armed
  THEN /\ last_call' = Call("arm", state, "True", "already")
       /\ UNCHANGED <<state, stop_event, detection_thread, pc,
                      consecutive_empty_frames, detection_result,
                      frame_id, face_result>>
  ELSE /\ state' = "ARMED"
       /\ IF classifier_usable
          THEN \E t \in Threads :
                 /\ ~is_alive(t)
                 /\ \A u \in Threads : u < t => is_alive(u)
                 /\ stop_event' = FALSE
                 /\ detection_thread' = t
                 /\ pc' = [pc EXCEPT ![t] = "head"]
                 /\ consecutive_empty_frames' = [consecutive_empty_frames EXCEPT ![t] = 0]
                 /\ ResetLocals(t)
                 /\ last_call' = Call("arm", state, "True", "started")
          ELSE /\ last_call' = Call("arm", state, "True", "degraded")
               /\ UNCHANGED <<stop_event, detection_thread, pc,
                              consecutive_empty_frames, detection_result,
                              frame_id, face_result>>

Arm ==
  /\ arm
  /\ UNCHANGED <<yolo_loaded, face_detector, latest_annotated_frame,
                 last_person_snapshot_time, last_animal_snapshot_time,
                 total_detections, person_detections, animal_detections,
                 face_recognition_results, face_tasks, snapshot_writes,
                 frames_read, face_checks, clock, disarm_pc>>
  /\ UNCHANGED amvars
  /\ UNCHANGED camvars
  /\ UNCHANGED yolovars
  /\ UNCHANGED sinkvars
  /\ UNCHANGED snapvars

\* a disarm that gives up when the detection thread outlives the join
set_disarmed_if_joined == state' = IF AliveThreads = {} THEN "DISARMED" ELSE state

\* disarm(), step 2: self.state = SystemState.DISARMED
set_disarmed == state' = "DISARMED"

\* disarm(), first part: with a live detection thread signal it and join
\* (bounded wait); with none go straight to DISARMED.
DisarmBegin ==
  /\ disarm_pc = "idle"
  /\ IF is_alive(detection_thread)
     THEN /\ stop_event' = TRUE
          /\ disarm_pc' = "join"
          /\ last_call' = Call("disarm_begin", None, None, None)
          /\ UNCHANGED state
     ELSE /\ set_disarmed
          /\ last_call' = Call("disarm", state, "True", "nothread")
          /\ UNCHANGED <<stop_event, disarm_pc>>
  /\ UNCHANGED <<yolo_loaded, face_detector, detection_thread,
                 latest_annotated_frame, last_person_snapshot_time,
                 last_animal_snapshot_time, total_detections, person_detections,
                 animal_detections, face_recognition_results, pc,
                 consecutive_empty_frames, detection_result, frame_id,
                 face_result, face_tasks, snapshot_writes,
                 frames_read, face_checks, clock>>
  /\ UNCHANGED amvars
  /\ UNCHANGED camvars
  /\ UNCHANGED yolovars
  /\ UNCHANGED sinkvars
  /\ UNCHANGED snapvars

\* disarm(), second part: join(timeout=5) returned, because the thread ended
\* or because the wait timed out; either way the thread reference is dropped,
\* the stop event cleared and the state set to DISARMED.
DisarmEnd ==
  /\ disarm_pc = "join"
  /\ detection_thread' = NoThread
  /\ stop_event' = FALSE
  /\ set_disarmed
  /\ disarm_pc' = "idle"
  /\ last_call' = Call("disarm", state, "True",
                       IF AliveThreads = {} THEN "joined" ELSE "timeout")
  /\ UNCHANGED <<yolo_loaded, face_detector, latest_annotated_frame,
                 last_person_snapshot_time, last_animal_snapshot_time,
                 total_detections, person_detections, animal_detections,
                 face_recognition_results, pc, consecutive_empty_frames,
                 detection_result, frame_id, face_result, face_tasks,
                 snapshot_writes, frames_read, face_checks, clock>>
  /\ UNCHANGED amvars
  /\ UNCHANGED camvars
  /\ UNCHANGED yolovars
  /\ UNCHANGED sinkvars
  /\ UNCHANGED snapvars

\* trigger_alarm(): sets the state to ALARM
trigger_alarm == state' = "ALARM"

\* clear_alarm(): sets the state to ARMED
clear_alarm == state' = "ARMED"

TriggerAlarm ==
  /\ trigger_alarm
  /\ last_call' = Call("trigger_alarm", None, None, None)
  /\ UNCHANGED <<yolo_loaded, face_detector, detection_thread, stop_event,
                 latest_annotated_frame, last_person_snapshot_time,
                 last_animal_snapshot_time, total_detections, person_detections,
                 animal_detections, face_recognition_results, pc,
                 consecutive_empty_frames, detection_result, frame_id,
                 face_result, face_tasks, snapshot_writes,
                 frames_read, face_checks, clock, disarm_pc>>
  /\ UNCHANGED amvars
  /\ UNCHANGED camvars
  /\ UNCHANGED yolovars
  /\ UNCHANGED sinkvars
  /\ UNCHANGED snapvars

ClearAlarm ==
  /\ clear_alarm
  /\ last_call' = Call("clear_alarm", None, None, None)
  /\ UNCHANGED <<yolo_loaded, face_detector, detection_thread, stop_event,
                 latest_annotated_frame, last_person_snapshot_time,
                 last_animal_snapshot_time, total_detections, person_detections,
                 animal_detections, face_recognition_results, pc,
                 consecutive_empty_frames, detection_result, frame_id,
                 face_result, face_tasks, snapshot_writes,
                 frames_read, face_checks, clock, disarm_pc>>
  /\ UNCHANGED amvars
  /\ UNCHANGED camvars
  /\ UNCHANGED yolovars
  /\ UNCHANGED sinkvars
  /\ UNCHANGED snapvars

\* --------------------------------------------------- _detection_loop
LoopCall(info) == Call("_detection_loop", None, None, info)

\* a failure counter that a successful fetch leaves as it is
empty_frames_after_success_kept(n) == n

\* _detection_loop, after a valid frame: consecutive_empty_frames = 0
empty_frames_after_success(n) == 0

\* loop head and steps 1-2: a set stop event ends the loop; a state other
\* than ARMED and ALARM sleeps one second and re-checks; otherwise
\* camera.get_frame(timeout=0.5) returns a frame or None, and the tenth
\* consecutive None breaks out of the loop
LoopHeadUpTo(t, max_frames, max_failing_run) ==
  /\ pc[t] = "head"
  /\ IF stop_event
     THEN /\ pc' = [pc EXCEPT ![t] = "done"]
          /\ consecutive_empty_frames' = [consecutive_empty_frames EXCEPT ![t] = 0]
          /\ last_call' = LoopCall("stopped")
          /\ UNCHANGED frames_read
     ELSE IF state # "ARMED" /\ state # "ALARM"
     THEN /\ last_call' = LoopCall("head")
          /\ UNCHANGED <<pc, consecutive_empty_frames, frames_read>>
     ELSE \/ /\ frames_read < max_frames
             /\ frames_read' = frames_read + 1
             /\ consecutive_empty_frames' =
                  [consecutive_empty_frames EXCEPT ![t] = empty_frames_after_success(@)]
             /\ pc' = [pc EXCEPT ![t] = "detect"]
             /\ last_call' = LoopCall("head")
          \/ /\ Cardinality({u \in AliveThreads : consecutive_empty_frames[u] > 0} \cup {t})
                  <= MaxFailing
             /\ consecutive_empty_frames[t] < max_failing_run
             /\ consecutive_empty_frames' =
                  [consecutive_empty_frames EXCEPT ![t] = @ + 1]
             /\ pc' = [pc EXCEPT ![t] =
                         IF consecutive_empty_frames[t] + 1 >= max_empty_frames
                         THEN "done" ELSE "head"]
             /\ last_call' = LoopCall(IF consecutive_empty_frames[t] + 1 >= max_empty_frames
                                      THEN "frame_loss" ELSE "head")
             /\ UNCHANGED frames_read
  /\ UNCHANGED <<state, yolo_loaded, face_detector, detection_thread, stop_event,
                 latest_annotated_frame, last_person_snapshot_time,
                 last_animal_snapshot_time, total_detections, person_detections,
                 animal_detections, face_recognition_results,
                 detection_result, frame_id, face_result, face_tasks,
                 snapshot_writes, face_checks, clock, disarm_pc>>
  /\ UNCHANGED amvars
  /\ UNCHANGED camvars
  /\ UNCHANGED yolovars
  /\ UNCHANGED sinkvars
  /\ UNCHANGED snapvars

\* steps 3-4: the primary classifier runs on the frame; a result with a
\* person and a configured identity classifier starts the identity thread
\* under a new request id; no detection publishes the clean frame
DetectUpTo(t, max_checks) ==
  /\ pc[t] = "detect"
  /\ \E person_count \in 0..MaxCount, animal_count \in 0..MaxCount :
       IF ~yolo_loaded
       THEN /\ pc' = [pc EXCEPT ![t] = "head"]
            /\ ResetLocals(t)
            /\ last_call' = LoopCall("detect")
            /\ UNCHANGED <<latest_annotated_frame, face_tasks, face_checks>>
       ELSE IF DetectionTypeOf(person_count, animal_count) # "NONE"
       THEN IF person_count > 0 /\ face_detector
            THEN /\ face_checks < max_checks
                 /\ face_checks' = face_checks + 1
                 /\ frame_id' = [frame_id EXCEPT ![t] = face_checks + 1]
                 /\ face_tasks' = face_tasks \cup {face_checks + 1}
                 /\ detection_result' =
                      [detection_result EXCEPT ![t] = <<person_count, animal_count>>]
                 /\ pc' = [pc EXCEPT ![t] = "wait"]
                 /\ last_call' = LoopCall("detect")
                 /\ UNCHANGED <<latest_annotated_frame, face_result>>
            ELSE /\ detection_result' =
                      [detection_result EXCEPT ![t] = <<person_count, animal_count>>]
                 /\ pc' = [pc EXCEPT ![t] = "process"]
                 /\ last_call' = LoopCall("detect")
                 /\ UNCHANGED <<latest_annotated_frame, frame_id,
                                face_result, face_tasks, face_checks>>
       ELSE /\ latest_annotated_frame' = "clean"
            /\ pc' = [pc EXCEPT ![t] = "head"]
            /\ ResetLocals(t)
            /\ last_call' = LoopCall("detect")
            /\ UNCHANGED <<face_tasks, face_checks>>
  /\ UNCHANGED <<state, yolo_loaded, face_detector, detection_thread, stop_event,
                 last_person_snapshot_time, last_animal_snapshot_time,
                 total_detections, person_detections, animal_detections,
                 face_recognition_results, consecutive_empty_frames,
                 snapshot_writes, frames_read, clock, disarm_pc>>
  /\ UNCHANGED amvars
  /\ UNCHANGED camvars
  /\ UNCHANGED yolovars
  /\ UNCHANGED sinkvars
  /\ UNCHANGED snapvars

\* the detection loop of the SystemManager model: at most MaxFrames frames
\* and MaxChecks identity checks over one run
LoopHead(t) == LoopHeadUpTo(t, MaxFrames, max_empty_frames)

Detect(t) == DetectUpTo(t, MaxChecks)

\* run_face_recognition_async: the identity classifier returns (an empty
\* result <<0, 0>> when it finds no face or fails inside detect) and the
\* result is stored under the request id
FaceCompleteWith(id, face_counts) ==
  /\ id \in face_tasks
  /\ \E counts \in face_counts :
       face_recognition_results' =
         CacheStore(face_recognition_results, id, counts)
  /\ face_tasks' = face_tasks \ {id}
  /\ last_call' = Call("run_face_recognition_async", None, None, None)
  /\ UNCHANGED <<state, yolo_loaded, face_detector, detection_thread, stop_event,
                 latest_annotated_frame, last_person_snapshot_time,
                 last_animal_snapshot_time, total_detections, person_detections,
                 animal_detections, pc, consecutive_empty_frames,
                 detection_result, frame_id, face_result, snapshot_writes,
                 frames_read, face_checks, clock, disarm_pc>>
  /\ UNCHANGED amvars
  /\ UNCHANGED camvars
  /\ UNCHANGED yolovars
  /\ UNCHANGED sinkvars
  /\ UNCHANGED snapvars

\* the identity classifier of the SystemManager model reports up to MaxFaces
\* authorized and up to MaxFaces unknown faces
FaceComplete(id) == FaceCompleteWith(id, (0..MaxFaces) \X (0..MaxFaces))

\* run_face_recognition_async: an exception ends the identity thread with
\* nothing stored
FaceFail(id) ==
  /\ id \in face_tasks
  /\ face_tasks' = face_tasks \ {id}
  /\ last_call' = Call("run_face_recognition_async", None, None, None)
  /\ UNCHANGED <<state, yolo_loaded, face_detector, detection_thread, stop_event,
                 latest_annotated_frame, last_person_snapshot_time,
                 last_animal_snapshot_time, total_detections, person_detections,
                 animal_detections, face_recognition_results, pc,
                 consecutive_empty_frames, detection_result, frame_id,
                 face_result, snapshot_writes, frames_read,
                 face_checks, clock, disarm_pc>>
  /\ UNCHANGED amvars
  /\ UNCHANGED camvars
  /\ UNCHANGED yolovars
  /\ UNCHANGED sinkvars
  /\ UNCHANGED snapvars

\* a decision that takes a missing identity result for an authorized person
identity_decision_fail_open(res) ==
  IF res # NoResult
  THEN IF authorized_person_detected(res) THEN "suppress" ELSE "escalate"
  ELSE "suppress"

\* a decision that escalates whatever the identity result says
identity_decision_never_suppress(res) == "escalate"

\* the decision taken on the identity result read under the request id:
\* an authorized person skips the alert, anything else goes on to
\* _process_detection
identity_decision(res) ==
  IF res # NoResult
  THEN IF authorized_person_detected(res) THEN "suppress" ELSE "escalate"
  ELSE "escalate"

\* a lookup that takes the newest result in the cache, whatever its id
cache_get_newest(cache, id) ==
  IF CacheKeys(cache) = {} THEN NoResult
  ELSE cache[CHOOSE k \in CacheKeys(cache) : \A j \in CacheKeys(cache) : j <= k]

\* self.face_recognition_results.get(frame_id)
cache_get(cache, id) == cache[id]

\* face_thread.join(timeout=3.0) returned (thread ended or timeout); the
\* loop reads the result stored under its own request id and decides
WaitEnd(t) ==
  /\ pc[t] = "wait"
  /\ LET res == cache_get(face_recognition_results, frame_id[t])
     IN  /\ latest_annotated_frame' = IF res # NoResult THEN "face" ELSE "yolo"
         /\ IF identity_decision(res) = "suppress"
            THEN /\ pc' = [pc EXCEPT ![t] = "head"]
                 /\ ResetLocals(t)
                 /\ last_call' = LoopCall("authorized")
            ELSE /\ pc' = [pc EXCEPT ![t] = "process"]
                 /\ face_result' = [face_result EXCEPT ![t] = res]
                 /\ last_call' = LoopCall("escalate")
                 /\ UNCHANGED <<detection_result, frame_id>>
  /\ UNCHANGED <<state, yolo_loaded, face_detector, detection_thread, stop_event,
                 last_person_snapshot_time, last_animal_snapshot_time,
                 total_detections, person_detections, animal_detections,
                 face_recognition_results, consecutive_empty_frames, face_tasks,
                 snapshot_writes, frames_read, face_checks, clock,
                 disarm_pc>>
  /\ UNCHANGED amvars
  /\ UNCHANGED camvars
  /\ UNCHANGED yolovars
  /\ UNCHANGED sinkvars
  /\ UNCHANGED snapvars

\* an animal cooldown as short as the person cooldown
animal_cooldown_short == snapshot_cooldown

\* _process_detection: animal_cooldown = self.snapshot_cooldown * 3
animal_cooldown == snapshot_cooldown * 3

\* _process_detection: if self.telegram_bot
telegram_bot_attached == system_telegram_bot

\* _process_detection: statistics; a PERSON or BOTH detection triggers the
\* alarm, spawns a person snapshot outside its cooldown, queues an alert and,
\* with a bot attached to the SystemManager, calls its send_alert;
\* an ANIMAL detection only spawns an animal snapshot outside 3 x cooldown
process_detection(t) ==
  LET person_count == detection_result[t][1]
      animal_count == detection_result[t][2]
      detection_type == DetectionTypeOf(person_count, animal_count)
      alert_level == determine_alert_level(person_count, animal_count)
  IN  /\ total_detections' = total_detections + 1
      /\ person_detections' = person_detections + person_count
      /\ animal_detections' = animal_detections + animal_count
      /\ \E now \in clock..MaxTime :
           LET current_time == now * TickLen
           IN  /\ clock' = now
               /\ IF detection_type = "PERSON" \/ detection_type = "BOTH"
                  THEN /\ trigger_alarm
                       /\ IF current_time - last_person_snapshot_time >= snapshot_cooldown
                          THEN /\ last_person_snapshot_time' = current_time
                               /\ snapshot_writes' =
                                    [snapshot_writes EXCEPT !["person"] = @ + 1]
                          ELSE UNCHANGED <<last_person_snapshot_time, snapshot_writes>>
                       /\ queue' = queue_alert(queue, alert_level, person_count)
                       /\ direct_alerts' = IF telegram_bot_attached
                                           THEN Append(direct_alerts, now)
                                           ELSE direct_alerts
                       /\ UNCHANGED last_animal_snapshot_time
                  ELSE /\ IF current_time - last_animal_snapshot_time >= animal_cooldown
                          THEN /\ last_animal_snapshot_time' = current_time
                               /\ snapshot_writes' =
                                    [snapshot_writes EXCEPT !["animal"] = @ + 1]
                          ELSE UNCHANGED <<last_animal_snapshot_time, snapshot_writes>>
                       /\ UNCHANGED <<state, last_person_snapshot_time, queue,
                                      direct_alerts>>

ProcessDetection(t) ==
  /\ pc[t] = "process"
  /\ process_detection(t)
  /\ pc' = [pc EXCEPT ![t] = "head"]
  /\ ResetLocals(t)
  /\ last_call' = Call("_process_detection", None, None,
                       IF frame_id[t] = 0 THEN "no_check"
                       ELSE IF face_result[t] = NoResult THEN "no_result"
                       ELSE "unknown")
  /\ UNCHANGED <<yolo_loaded, face_detector, detection_thread, stop_event,
                 latest_annotated_frame, face_recognition_results,
                 consecutive_empty_frames, face_tasks, frames_read, face_checks,
                 disarm_pc>>
  /\ UNCHANGED <<telegram_bot, last_alert_time, alert_count, alerts_sent,
                 alerts_dropped, am_stop_event, am_pc, alert, send_start,
                 deliveries, am_clock, puts, add_local, am_stop_pc>>
  /\ UNCHANGED camvars
  /\ UNCHANGED yolovars
  /\ UNCHANGED system_telegram_bot
  /\ UNCHANGED snapvars

\* -------------------------------------------------------- AlertManager
\* an order that takes the lowest level first
alert_lt_lowest_first(a, b) == LevelValue(a.level) < LevelValue(b.level)

\* Alert.__lt__: a is taken before b when its priority is higher
alert_lt(a, b) == LevelValue(a.level) > LevelValue(b.level)

\* the alerts queue.get() may return: none is ordered before them; among
\* equal priorities the heap order is not fixed
QueueHeads(q) == {a \in q : \A b \in q : ~alert_lt(b, a)}

\* a cooldown gate that is never closed
is_in_cooldown_never(now) == FALSE

\* a cooldown gate that stays closed after the first delivery
is_in_cooldown_forever(now) == last_alert_time # NoTime

\* _is_in_cooldown: false with no previous alert, else whether less than
\* cooldown seconds have passed since last_alert_time
is_in_cooldown(now) ==
  IF last_alert_time = NoTime
  THEN FALSE
  ELSE (now - last_alert_time) * TickLen < alert_cooldown

\* start(): a live processing thread returns at once; otherwise a new thread
\* runs _process_loop (the stop event is left as it is)
AmStart ==
  /\ IF am_pc \in {"get", "check", "send"}
     THEN UNCHANGED am_pc
     ELSE am_pc' = "get"
  /\ last_call' = Call("start", state, None,
                       IF am_pc \in {"get", "check", "send"} THEN "running" ELSE "started")
  /\ UNCHANGED <<telegram_bot, queue, last_alert_time, alert_count, alerts_sent,
                 alerts_dropped, am_stop_event, alert, send_start, deliveries,
                 am_clock, puts, add_local, am_stop_pc>>
  /\ UNCHANGED <<state, yolo_loaded, face_detector, detection_thread, stop_event,
                 latest_annotated_frame, last_person_snapshot_time,
                 last_animal_snapshot_time, total_detections, person_detections,
                 animal_detections, face_recognition_results, pc,
                 consecutive_empty_frames, detection_result, frame_id,
                 face_result, face_tasks, snapshot_writes, frames_read,
                 face_checks, clock, disarm_pc>>
  /\ UNCHANGED camvars
  /\ UNCHANGED yolovars
  /\ UNCHANGED sinkvars
  /\ UNCHANGED snapvars

\* add_alert(level, message, frame), first part: self.queue.put(alert) on
\* the unbounded PriorityQueue; the alert is the puts+1-th one put
queue_put(level) ==
  /\ queue' = queue \cup {[id |-> puts + 1, level |-> level]}
  /\ puts' = puts + 1

\* add_alert(level, message, frame) run by one caller with no other caller
\* inside add_alert: put a new Alert, count it
add_alert(level) ==
  /\ queue_put(level)
  /\ alert_count' = alert_count + 1

AddAlert ==
  /\ puts < MaxAlerts
  /\ \A c \in Callers : add_local[c] = NoCount
  /\ \E level \in AlertLevel : add_alert(level)
  /\ last_call' = Call("add_alert", state, None, None)
  /\ UNCHANGED <<telegram_bot, last_alert_time, alerts_sent, alerts_dropped,
                 am_stop_event, am_pc, alert, send_start, deliveries, am_clock,
                 add_local, am_stop_pc>>
  /\ UNCHANGED <<state, yolo_loaded, face_detector, detection_thread, stop_event,
                 latest_annotated_frame, last_person_snapshot_time,
                 last_animal_snapshot_time, total_detections, person_detections,
                 animal_detections, face_recognition_results, pc,
                 consecutive_empty_frames, detection_result, frame_id,
                 face_result, face_tasks, snapshot_writes, frames_read,
                 face_checks, clock, disarm_pc>>
  /\ UNCHANGED camvars
  /\ UNCHANGED yolovars
  /\ UNCHANGED sinkvars
  /\ UNCHANGED snapvars

\* a get that leaves the alert in the queue
queue_get_peek(q, a) == q

\* self.queue.get(timeout=1.0) returned a: a is removed from the queue
queue_get(q, a) == q \ {a}

\* _process_loop, head: a set stop event ends the loop; queue.get(timeout=1)
\* returns the first alert in priority order, or raises Empty and the loop
\* goes round
AmGet ==
  /\ am_pc = "get"
  /\ IF am_stop_event
     THEN /\ am_pc' = "done"
          /\ last_call' = Call("_process_loop", state, None, "stopped")
          /\ UNCHANGED <<queue, alert>>
     ELSE IF queue = {}
     THEN /\ last_call' = Call("_process_loop", state, None, "empty")
          /\ UNCHANGED <<am_pc, queue, alert>>
     ELSE \E a \in QueueHeads(queue) :
            /\ queue' = queue_get(queue, a)
            /\ alert' = a
            /\ am_pc' = "check"
            /\ last_call' = Call("_process_loop", state, None, "got")
  /\ UNCHANGED <<telegram_bot, last_alert_time, alert_count, alerts_sent,
                 alerts_dropped, am_stop_event, send_start, deliveries, am_clock,
                 puts, add_local, am_stop_pc>>
  /\ UNCHANGED <<state, yolo_loaded, face_detector, detection_thread, stop_event,
                 latest_annotated_frame, last_person_snapshot_time,
                 last_animal_snapshot_time, total_detections, person_detections,
                 animal_detections, face_recognition_results, pc,
                 consecutive_empty_frames, detection_result, frame_id,
                 face_result, face_tasks, snapshot_writes, frames_read,
                 face_checks, clock, disarm_pc>>
  /\ UNCHANGED camvars
  /\ UNCHANGED yolovars
  /\ UNCHANGED sinkvars
  /\ UNCHANGED snapvars

\* a requeue that forgets the alert
requeue_forget(q, a) == q

\* _process_loop, in cooldown: self.queue.put(alert)
requeue(q, a) == q \cup {a}

\* _process_loop, cooldown gate: in cooldown the alert is put back and the
\* loop waits at most one second; otherwise _send_alert is called
AmCheck ==
  /\ am_pc = "check"
  /\ IF is_in_cooldown(am_clock)
     THEN /\ queue' = requeue(queue, alert)
          /\ alert' = NoAlert
          /\ am_pc' = "get"
          /\ last_call' = Call("_process_loop", state, None, "requeued")
          /\ UNCHANGED send_start
     ELSE /\ am_pc' = "send"
          /\ send_start' = am_clock
          /\ last_call' = Call("_process_loop", state, None, "sending")
          /\ UNCHANGED <<queue, alert>>
  /\ UNCHANGED <<telegram_bot, last_alert_time, alert_count, alerts_sent,
                 alerts_dropped, am_stop_event, deliveries, am_clock,
                 puts, add_local, am_stop_pc>>
  /\ UNCHANGED <<state, yolo_loaded, face_detector, detection_thread, stop_event,
                 latest_annotated_frame, last_person_snapshot_time,
                 last_animal_snapshot_time, total_detections, person_detections,
                 animal_detections, face_recognition_results, pc,
                 consecutive_empty_frames, detection_result, frame_id,
                 face_result, face_tasks, snapshot_writes, frames_read,
                 face_checks, clock, disarm_pc>>
  /\ UNCHANGED camvars
  /\ UNCHANGED yolovars
  /\ UNCHANGED sinkvars
  /\ UNCHANGED snapvars

\* what telegram_bot.send_alert does: returns True, returns False, raises
SinkOutcomes == {"True", "False", "raises"}

\* a send that succeeds whatever the sink does, and without a sink
send_alert_always(sink) == TRUE

\* _send_alert: False without a bot, and when the bot returns False or
\* raises; True when the bot returns True
send_alert(sink) == telegram_bot /\ sink = "True"

\* _send_alert and the rest of the iteration: a failed send drops the alert;
\* on success last_alert_time is set to now and alerts_sent counts it
Send(sink) ==
  /\ am_pc = "send"
  /\ IF send_alert(sink)
       THEN /\ last_alert_time' = am_clock
            /\ alerts_sent' = alerts_sent + 1
            /\ deliveries' = Append(deliveries, <<send_start, am_clock>>)
            /\ last_call' = Call("_send_alert", state, "True", alert.level)
            /\ UNCHANGED alerts_dropped
       ELSE /\ alerts_dropped' = alerts_dropped + 1
            /\ last_call' = Call("_send_alert", state, "False", alert.level)
            /\ UNCHANGED <<last_alert_time, alerts_sent, deliveries>>
  /\ alert' = NoAlert
  /\ am_pc' = "get"
  /\ UNCHANGED <<telegram_bot, queue, alert_count, am_stop_event, send_start,
                 am_clock, puts, add_local, am_stop_pc>>
  /\ UNCHANGED <<state, yolo_loaded, face_detector, detection_thread, stop_event,
                 latest_annotated_frame, last_person_snapshot_time,
                 last_animal_snapshot_time, total_detections, person_detections,
                 animal_detections, face_recognition_results, pc,
                 consecutive_empty_frames, detection_result, frame_id,
                 face_result, face_tasks, snapshot_writes, frames_read,
                 face_checks, clock, disarm_pc>>
  /\ UNCHANGED camvars
  /\ UNCHANGED yolovars
  /\ UNCHANGED sinkvars
  /\ UNCHANGED snapvars

AmSend == \E sink \in SinkOutcomes : Send(sink)

\* datetime.now() moves on; time does not stop inside a cooldown
AmTick ==
  /\ \/ am_clock < MaxAlertTime
     \/ /\ last_alert_time # NoTime
        /\ (am_clock - last_alert_time) * TickLen < alert_cooldown
  /\ am_clock' = am_clock + 1
  /\ last_call' = Call("tick", state, None, None)
  /\ UNCHANGED <<telegram_bot, queue, last_alert_time, alert_count, alerts_sent,
                 alerts_dropped, am_stop_event, am_pc, alert, send_start,
                 deliveries, puts, add_local, am_stop_pc>>
  /\ UNCHANGED <<state, yolo_loaded, face_detector, detection_thread, stop_event,
                 latest_annotated_frame, last_person_snapshot_time,
                 last_animal_snapshot_time, total_detections, person_detections,
                 animal_detections, face_recognition_results, pc,
                 consecutive_empty_frames, detection_result, frame_id,
                 face_result, face_tasks, snapshot_writes, frames_read,
                 face_checks, clock, disarm_pc>>
  /\ UNCHANGED camvars
  /\ UNCHANGED yolovars
  /\ UNCHANGED sinkvars
  /\ UNCHANGED snapvars

\* clear_queue(): the count is read with self.queue.qszie(), which is not a
\* method of PriorityQueue: the call raises AttributeError before the queue
\* is replaced, and stop() passes the exception on to its caller
clear_queue ==
  /\ queue' = queue
  /\ UNCHANGED <<alert_count, alerts_sent, alerts_dropped>>

\* the processing thread exists and is alive
processing_thread_alive == am_pc \in {"get", "check", "send"}

\* stop(), first part: set the stop event; a live processing thread is
\* joined (bounded wait), otherwise clear_queue() is called at once
AmStopBegin ==
  /\ am_stop_pc = "idle"
  /\ am_stop_event' = TRUE
  /\ IF processing_thread_alive
     THEN /\ am_stop_pc' = "join"
          /\ last_call' = Call("stop_begin", state, None, None)
          /\ UNCHANGED <<queue, alert_count, alerts_sent, alerts_dropped>>
     ELSE /\ clear_queue
          /\ last_call' = Call("stop", state, "AttributeError", "nothread")
          /\ UNCHANGED am_stop_pc
  /\ UNCHANGED <<telegram_bot, last_alert_time, am_pc, alert, send_start,
                 deliveries, am_clock, puts, add_local>>
  /\ UNCHANGED sysrest
  /\ UNCHANGED camvars
  /\ UNCHANGED yolovars
  /\ UNCHANGED sinkvars
  /\ UNCHANGED snapvars

\* stop(), second part: join(timeout=5.0) returned, because the thread ended
\* or because the wait timed out; then clear_queue() is called
AmStopEnd ==
  /\ am_stop_pc = "join"
  /\ clear_queue
  /\ am_stop_pc' = "idle"
  /\ last_call' = Call("stop", state, "AttributeError",
                       IF processing_thread_alive THEN "timeout" ELSE "joined")
  /\ UNCHANGED <<telegram_bot, last_alert_time, am_stop_event, am_pc, alert,
                 send_start, deliveries, am_clock, puts, add_local>>
  /\ UNCHANGED sysrest
  /\ UNCHANGED camvars
  /\ UNCHANGED yolovars
  /\ UNCHANGED sinkvars
  /\ UNCHANGED snapvars

NextAlert ==
  \/ AmStart
  \/ AddAlert
  \/ AmGet
  \/ AmCheck
  \/ AmSend
  \/ AmTick
  \/ AmStopBegin
  \/ AmStopEnd

SpecAlert == InitAlert /\ [][NextAlert]_vars

\* ------------------------------------------ concurrent add_alert callers
\* add_alert run by caller c next to other callers, first part: the alert is
\* put and self.alert_count is read for the increment (alert_count += 1 is a
\* read, an addition and a store, with no lock around them)
AddPut(c) ==
  /\ add_local[c] = NoCount
  /\ puts < MaxAlerts
  /\ \E level \in AlertLevel : queue_put(level)
  /\ add_local' = [add_local EXCEPT ![c] = alert_count]
  /\ last_call' = Call("add_alert_put", state, None, None)
  /\ UNCHANGED <<telegram_bot, last_alert_time, alert_count, alerts_sent,
                 alerts_dropped, am_stop_event, am_pc, alert, send_start,
                 deliveries, am_clock, am_stop_pc>>
  /\ UNCHANGED sysrest
  /\ UNCHANGED camvars
  /\ UNCHANGED yolovars
  /\ UNCHANGED sinkvars
  /\ UNCHANGED snapvars

\* second part: the incremented value is stored and add_alert returns
AddCount(c) ==
  /\ add_local[c] # NoCount
  /\ alert_count' = add_local[c] + 1
  /\ add_local' = [add_local EXCEPT ![c] = NoCount]
  /\ last_call' = Call("add_alert", state, None, None)
  /\ UNCHANGED <<telegram_bot, queue, last_alert_time, alerts_sent,
                 alerts_dropped, am_stop_event, am_pc, alert, send_start,
                 deliveries, am_clock, puts, am_stop_pc>>
  /\ UNCHANGED sysrest
  /\ UNCHANGED camvars
  /\ UNCHANGED yolovars
  /\ UNCHANGED sinkvars
  /\ UNCHANGED snapvars

NextAdd ==
  \/ \E c \in Callers : AddPut(c)
  \/ \E c \in Callers : AddCount(c)
  \/ AmStart
  \/ AmGet
  \/ AmCheck
  \/ AmSend

SpecAdd == InitAlert /\ [][NextAdd]_vars

\* ---------------------------------------------- liveness under cooldown
\* the AlertManager with a sink: every send the sink accepts
InitLive ==
  /\ InitAlert
  /\ telegram_bot = TRUE

\* add_alert(AlertLevel.CRITICAL, ...) called inside the first cooldown
\* period of the run: any two such alerts are closer together than the cooldown
AddCritical ==
  /\ am_clock * TickLen < alert_cooldown
  /\ AddAlert
  /\ \A a \in queue' \ queue : a.level = "CRITICAL"

NextLive ==
  \/ AmStart
  \/ AddCritical
  \/ AmGet
  \/ AmCheck
  \/ Send("True")
  \/ AmTick

\* start() is called, the consumer thread is scheduled, time passes
FairLive ==
  /\ WF_vars(AmStart)
  /\ WF_vars(AmGet)
  /\ WF_vars(AmCheck)
  /\ WF_vars(Send("True"))
  /\ WF_vars(AmTick)

SpecLive == InitLive /\ [][NextLive]_vars /\ FairLive

\* ------------------------------------------------ stop() then start()
\* stop(), second part, with a consumer that has left its loop: the join
\* returns because the thread ended
AmStopEndJoined ==
  /\ ~processing_thread_alive
  /\ AmStopEnd

\* stop() called once over the run
AmStopOnce ==
  /\ ~am_stop_event
  /\ AmStopBegin

NextRestart ==
  \/ AmStart
  \/ AddAlert
  \/ AmGet
  \/ AmCheck
  \/ Send("True")
  \/ AmTick
  \/ AmStopOnce
  \/ AmStopEndJoined

\* start() is called (again), the consumer thread is scheduled, the sink
\* answers, the join returns, time passes
FairRestart ==
  /\ WF_vars(AmStart)
  /\ WF_vars(AmGet)
  /\ WF_vars(AmCheck)
  /\ WF_vars(Send("True"))
  /\ WF_vars(AmTick)
  /\ WF_vars(AmStopEndJoined)

SpecRestart == InitLive /\ [][NextRestart]_vars /\ FairRestart

Next ==
  \/ Arm
  \/ DisarmBegin
  \/ DisarmEnd
  \/ TriggerAlarm
  \/ ClearAlarm
  \/ \E t \in Threads : LoopHead(t)
  \/ \E t \in Threads : Detect(t)
  \/ \E id \in FrameIds : FaceComplete(id)
  \/ \E id \in FrameIds : FaceFail(id)
  \/ \E t \in Threads : WaitEnd(t)
  \/ \E t \in Threads : ProcessDetection(t)

Spec == Init /\ [][Next]_vars

\* the SystemManager with a notification bot attached
SpecBot == InitBot /\ [][Next]_vars

\* ------------------------------ _process_detection, statement by statement
\* the snapshot category of the detection thread t is processing
category(t) ==
  IF DetectionTypeOf(detection_result[t][1], detection_result[t][2]) \in {"PERSON", "BOTH"}
  THEN "person" ELSE "animal"

\* the rest of _process_detection after the snapshot code: a PERSON or BOTH
\* detection queues an alert and, with a bot attached, calls its send_alert;
\* then the loop goes back to its head
process_rest(t) ==
  /\ IF category(t) = "person"
     THEN /\ queue' = queue_alert(queue,
                                  determine_alert_level(detection_result[t][1],
                                                        detection_result[t][2]),
                                  detection_result[t][1])
          /\ direct_alerts' = IF telegram_bot_attached
                              THEN Append(direct_alerts, clock')
                              ELSE direct_alerts
     ELSE UNCHANGED <<queue, direct_alerts>>
  /\ pc' = [pc EXCEPT ![t] = "head"]
  /\ ResetLocals(t)

\* _process_detection up to the cooldown test: statistics, trigger_alarm()
\* for a PERSON or BOTH detection, current_time = time.time() and the test
\* current_time - last snapshot time of the category >= its cooldown; inside
\* the cooldown the snapshot is skipped and the method goes on to its end
SnapshotCheck(t) ==
  /\ pc[t] = "process"
  /\ total_detections' = total_detections + 1
  /\ person_detections' = person_detections + detection_result[t][1]
  /\ animal_detections' = animal_detections + detection_result[t][2]
  /\ IF category(t) = "person" THEN trigger_alarm ELSE UNCHANGED state
  /\ \E now \in clock..MaxTime :
       /\ clock' = now
       /\ IF category(t) = "person"
          THEN now * TickLen - last_person_snapshot_time >= snapshot_cooldown
          ELSE now * TickLen - last_animal_snapshot_time >= animal_cooldown
       /\ read_time' = [read_time EXCEPT ![t] = now]
  /\ pc' = [pc EXCEPT ![t] = "spawn"]
  /\ last_call' = Call("_process_detection", None, None, "cooldown_over")
  /\ UNCHANGED <<yolo_loaded, face_detector, detection_thread, stop_event,
                 latest_annotated_frame, last_person_snapshot_time,
                 last_animal_snapshot_time, face_recognition_results,
                 consecutive_empty_frames, detection_result, frame_id,
                 face_result, face_tasks, snapshot_writes, frames_read,
                 face_checks, disarm_pc>>
  /\ UNCHANGED amvars
  /\ UNCHANGED camvars
  /\ UNCHANGED yolovars
  /\ UNCHANGED sinkvars
  /\ UNCHANGED snapshot_spawned

\* _process_detection inside the cooldown: the whole method in one step,
\* since it writes no snapshot field
SnapshotSkip(t) ==
  /\ pc[t] = "process"
  /\ total_detections' = total_detections + 1
  /\ person_detections' = person_detections + detection_result[t][1]
  /\ animal_detections' = animal_detections + detection_result[t][2]
  /\ IF category(t) = "person" THEN trigger_alarm ELSE UNCHANGED state
  /\ \E now \in clock..MaxTime :
       /\ clock' = now
       /\ IF category(t) = "person"
          THEN now * TickLen - last_person_snapshot_time < snapshot_cooldown
          ELSE now * TickLen - last_animal_snapshot_time < animal_cooldown
  /\ process_rest(t)
  /\ last_call' = Call("_process_detection", None, None, "skipped")
  /\ UNCHANGED <<yolo_loaded, face_detector, detection_thread, stop_event,
                 latest_annotated_frame, last_person_snapshot_time,
                 last_animal_snapshot_time, face_recognition_results,
                 consecutive_empty_frames, face_tasks, snapshot_writes,
                 frames_read, face_checks, disarm_pc>>
  /\ UNCHANGED <<telegram_bot, last_alert_time, alert_count, alerts_sent,
                 alerts_dropped, am_stop_event, am_pc, alert, send_start,
                 deliveries, am_clock, puts, add_local, am_stop_pc>>
  /\ UNCHANGED camvars
  /\ UNCHANGED yolovars
  /\ UNCHANGED system_telegram_bot
  /\ UNCHANGED snapvars

\* _process_detection after a passed cooldown test: the frame is copied,
\* the category's snapshot time set to current_time, the writer thread
\* started, and the method goes on to its end
SnapshotSpawn(t) ==
  /\ pc[t] = "spawn"
  /\ IF category(t) = "person"
     THEN /\ last_person_snapshot_time' = read_time[t] * TickLen
          /\ UNCHANGED last_animal_snapshot_time
     ELSE /\ last_animal_snapshot_time' = read_time[t] * TickLen
          /\ UNCHANGED last_person_snapshot_time
  /\ snapshot_writes' = [snapshot_writes EXCEPT ![category(t)] = @ + 1]
  /\ snapshot_spawned' =
       [snapshot_spawned EXCEPT ![category(t)] = Append(@, read_time[t])]
  /\ read_time' = [read_time EXCEPT ![t] = NoTime]
  /\ process_rest(t)
  /\ last_call' = Call("_process_detection", None, None, "spawned")
  /\ UNCHANGED <<state, yolo_loaded, face_detector, detection_thread, stop_event,
                 latest_annotated_frame, total_detections, person_detections,
                 animal_detections, face_recognition_results,
                 consecutive_empty_frames, face_tasks, frames_read, face_checks,
                 clock, disarm_pc>>
  /\ UNCHANGED <<telegram_bot, last_alert_time, alert_count, alerts_sent,
                 alerts_dropped, am_stop_event, am_pc, alert, send_start,
                 deliveries, am_clock, puts, add_local, am_stop_pc>>
  /\ UNCHANGED camvars
  /\ UNCHANGED yolovars
  /\ UNCHANGED system_telegram_bot

\* the SystemManager with _process_detection taken statement by statement
NextSnapshot ==
  \/ Arm
  \/ DisarmBegin
  \/ DisarmEnd
  \/ \E t \in Threads : LoopHead(t)
  \/ \E t \in Threads : Detect(t)
  \/ \E id \in FrameIds : FaceComplete(id)
  \/ \E id \in FrameIds : FaceFail(id)
  \/ \E t \in Threads : WaitEnd(t)
  \/ \E t \in Threads : SnapshotCheck(t)
  \/ \E t \in Threads : SnapshotSkip(t)
  \/ \E t \in Threads : SnapshotSpawn(t)

SpecSnapshot == Init /\ [][NextSnapshot]_vars

\* one step of detection thread t
ThreadStep(t) == LoopHead(t) \/ Detect(t) \/ WaitEnd(t) \/ ProcessDetection(t)

\* disarm(), second part, with a join(timeout=5) that runs out only on a
\* thread in the middle of an iteration: a thread waiting at the head of
\* its loop wakes up within a second and is waited for
DisarmEndTimed ==
  /\ is_alive(detection_thread) => pc[detection_thread] # "head"
  /\ DisarmEnd

\* every live detection thread is scheduled again and again, and the
\* join(timeout=5) of disarm() returns
FairCancel ==
  /\ \A t \in Threads : WF_vars(ThreadStep(t))
  /\ WF_vars(DisarmEndTimed)

\* arm() called while no disarm() is under way
ArmAlone == disarm_pc = "idle" /\ Arm

\* arm() and disarm() called one after the other, never at the same time,
\* and no other caller of trigger_alarm() than the detection loop
NextCancel ==
  \/ ArmAlone
  \/ DisarmBegin
  \/ DisarmEndTimed
  \/ \E t \in Threads : ThreadStep(t)
  \/ \E id \in FrameIds : FaceComplete(id)
  \/ \E id \in FrameIds : FaceFail(id)

\* the SystemManager with its threads scheduled fairly
SpecCancel == Init /\ [][NextCancel]_vars /\ FairCancel

\* ------------------------------------------- the identity result cache
\* arm() called on the disarmed system: one detection thread
ArmOnce == state = "DISARMED" /\ Arm

CacheLoopHead(t) == LoopHeadUpTo(t, MaxCacheChecks, MaxCacheFailing)

CacheDetect(t) == DetectUpTo(t, MaxCacheChecks)

\* the faces seen over one run of the cache model: one authorized face or
\* one unknown face
CacheFaces == {<<1, 0>>, <<0, 1>>}

CacheFaceComplete(id) == FaceCompleteWith(id, CacheFaces)

\* both classifiers loaded
InitCache ==
  /\ Init
  /\ yolo_loaded
  /\ face_detector

\* one detection thread over MaxCacheChecks frames, each of which can start
\* an identity check whose result comes on time, late or never
NextCache ==
  \/ ArmOnce
  \/ \E t \in Threads : CacheLoopHead(t)
  \/ \E t \in Threads : CacheDetect(t)
  \/ \E id \in FrameIds : CacheFaceComplete(id)
  \/ \E id \in FrameIds : FaceFail(id)
  \/ \E t \in Threads : WaitEnd(t)
  \/ \E t \in Threads : ProcessDetection(t)

SpecCache == InitCache /\ [][NextCache]_vars

\* ------------------------------------------------ failing library calls
\* the identity check left no result and _draw_yolo_detections(frame.copy(),
\* detection_result) raises (frame copy or a cv2 drawing call): nothing in the
\* iteration catches it, the handler around the whole while loop logs it and
\* the detection thread ends
DrawRaise(t) ==
  /\ pc[t] = "wait"
  /\ face_recognition_results[frame_id[t]] = NoResult
  /\ pc' = [pc EXCEPT ![t] = "done"]
  /\ consecutive_empty_frames' = [consecutive_empty_frames EXCEPT ![t] = 0]
  /\ ResetLocals(t)
  /\ last_call' = LoopCall("exception")
  /\ UNCHANGED <<state, yolo_loaded, face_detector, detection_thread, stop_event,
                 latest_annotated_frame, last_person_snapshot_time,
                 last_animal_snapshot_time, total_detections, person_detections,
                 animal_detections, face_recognition_results, face_tasks,
                 snapshot_writes, frames_read, face_checks, clock, disarm_pc>>
  /\ UNCHANGED amvars
  /\ UNCHANGED camvars
  /\ UNCHANGED yolovars
  /\ UNCHANGED sinkvars
  /\ UNCHANGED snapvars

\* arm() with self.detection_thread.start() raising (no new thread can be
\* started): by then the state is ARMED, the stop event cleared and the
\* thread object, which never runs, stored; the handler of arm() logs the
\* exception and returns False
ArmRaise ==
  /\ ~already_armed
  /\ classifier_usable
  /\ state' = "ARMED"
  /\ stop_event' = FALSE
  /\ \E t \in Threads :
       /\ ~is_alive(t)
       /\ \A u \in Threads : u < t => is_alive(u)
       /\ detection_thread' = t
  /\ last_call' = Call("arm", state, "False", "raised")
  /\ UNCHANGED <<yolo_loaded, face_detector, latest_annotated_frame,
                 last_person_snapshot_time, last_animal_snapshot_time,
                 total_detections, person_detections, animal_detections,
                 face_recognition_results, pc, consecutive_empty_frames,
                 detection_result, frame_id, face_result, face_tasks,
                 snapshot_writes, frames_read, face_checks, clock, disarm_pc>>
  /\ UNCHANGED amvars
  /\ UNCHANGED camvars
  /\ UNCHANGED yolovars
  /\ UNCHANGED sinkvars
  /\ UNCHANGED snapvars

\* api_arm / api_disarm with the callback registered: the callback is
\* called and its return value dropped; "success" is True unless the
\* callback raises
api_success(callback_result) ==
  IF callback_result = "raises" THEN "False" ELSE "True"

NextFault ==
  \/ Next
  \/ \E t \in Threads : DrawRaise(t)
  \/ ArmRaise

\* the SystemManager with library calls that can raise
SpecFault == Init /\ [][NextFault]_vars

\* --------------------------------------------------------------- Camera
Max(S) == CHOOSE x \in S : \A y \in S : y <= x

\* a probe that accepts every device that opens, readable frame or not
try_camera_no_read(index) == device[index] # "closed"

\* _try_camera(index): True when the device opens, returns a test frame and,
\* after the test capture is released, opens again for real use
try_camera(index) == device[index] = "ok"

\* _try_camera(index) gets as far as self.capture = cv2.VideoCapture(index)
try_camera_assigns(index) == device[index] \in {"busy", "ok"}

\* start(): for index in range(5), skipping self.camera_index
ProbeRange == (0..(ProbeCount - 1)) \ {camera_index}

\* the index start() ends with: the configured one if it passes, else the
\* first of the others in ascending order that passes, else none
start_index ==
  IF try_camera(camera_index) THEN camera_index
  ELSE IF \E i \in ProbeRange : try_camera(i)
       THEN Min({i \in ProbeRange : try_camera(i)})
       ELSE NoIndex

\* the indices a failed start() has tried that left a capture object behind
start_assigned == {i \in ProbeRange \cup {camera_index} : try_camera_assigns(i)}

\* start() and _finalize_start(), called while no producer thread runs: on
\* success camera_index is the index found, the producer thread is started
\* and True returned; when every probe fails False is returned
CamStart ==
  /\ cam_pc \in {"none", "done"}
  /\ IF start_index # NoIndex
     THEN /\ camera_index' = start_index
          /\ capture' = start_index
          /\ capture_opened' = TRUE
          /\ stopped' = FALSE
          /\ cam_pc' = "read"
          /\ last_call' = Call("start", None, "True", None)
     ELSE /\ capture' = IF start_assigned = {} THEN capture
                        ELSE IF start_assigned \ {camera_index} # {}
                        THEN Max(start_assigned \ {camera_index})
                        ELSE camera_index
          /\ capture_opened' = IF start_assigned = {} THEN capture_opened ELSE FALSE
          /\ last_call' = Call("start", None, "False", None)
          /\ UNCHANGED <<camera_index, stopped, cam_pc>>
  /\ UNCHANGED <<device, configured, frame_queue, frame_count, frame, captured,
                 got, reads, cam_stop_pc>>
  /\ UNCHANGED sysrest
  /\ UNCHANGED amvars
  /\ UNCHANGED yolovars
  /\ UNCHANGED sinkvars
  /\ UNCHANGED snapvars

CaptureCall(info) == Call("_capture_loop", None, None, info)

\* _capture_loop, head: a set stopped flag ends the loop; otherwise the
\* loop calls capture.read(), which fails at once without an open capture
\* (the loop sleeps and tries again)
CaptureRead ==
  /\ cam_pc = "read"
  /\ IF stopped
     THEN /\ cam_pc' = "done"
          /\ last_call' = CaptureCall("stopped")
     ELSE IF capture_opened
          THEN /\ cam_pc' = "reading"
               /\ last_call' = CaptureCall("read")
          ELSE /\ last_call' = CaptureCall("read_failed")
               /\ UNCHANGED cam_pc
  /\ UNCHANGED <<device, configured, camera_index, capture, capture_opened,
                 stopped, frame_queue, frame_count, frame, captured, got, reads,
                 cam_stop_pc>>
  /\ UNCHANGED sysrest
  /\ UNCHANGED amvars
  /\ UNCHANGED yolovars
  /\ UNCHANGED sinkvars
  /\ UNCHANGED snapvars

\* _capture_loop: capture.read() returns, after any length of time, with
\* the next frame or with a failure (the loop sleeps and tries again); the
\* stopped flag is not looked at before the next pass of the loop
CaptureReturn ==
  /\ cam_pc = "reading"
  /\ \/ /\ captured < MaxCaptured
        /\ frame' = captured + 1
        /\ captured' = captured + 1
        /\ cam_pc' = "full"
        /\ last_call' = CaptureCall("frame")
     \/ /\ cam_pc' = "read"
        /\ last_call' = CaptureCall("read_failed")
        /\ UNCHANGED <<frame, captured>>
  /\ UNCHANGED <<device, configured, camera_index, capture, capture_opened,
                 stopped, frame_queue, frame_count, got, reads, cam_stop_pc>>
  /\ UNCHANGED sysrest
  /\ UNCHANGED amvars
  /\ UNCHANGED yolovars
  /\ UNCHANGED sinkvars
  /\ UNCHANGED snapvars

\* a full() that never reports a full buffer
full_never(q) == FALSE

\* self.frame_queue.full()
full(q) == Len(q) >= maxsize

\* _capture_loop: if self.frame_queue.full()
CaptureFull ==
  /\ cam_pc = "full"
  /\ cam_pc' = IF full(frame_queue) THEN "evict" ELSE "put"
  /\ last_call' = CaptureCall("full")
  /\ UNCHANGED <<device, configured, camera_index, capture, capture_opened,
                 stopped, frame_queue, frame_count, frame, captured, got, reads,
                 cam_stop_pc>>
  /\ UNCHANGED sysrest
  /\ UNCHANGED amvars
  /\ UNCHANGED yolovars
  /\ UNCHANGED sinkvars
  /\ UNCHANGED snapvars

\* _capture_loop: get_nowait() removes the oldest frame; Empty is ignored
CaptureEvict ==
  /\ cam_pc = "evict"
  /\ frame_queue' = IF frame_queue # <<>> THEN Tail(frame_queue) ELSE frame_queue
  /\ cam_pc' = "put"
  /\ last_call' = CaptureCall("evict")
  /\ UNCHANGED <<device, configured, camera_index, capture, capture_opened,
                 stopped, frame_count, frame, captured, got, reads, cam_stop_pc>>
  /\ UNCHANGED sysrest
  /\ UNCHANGED amvars
  /\ UNCHANGED yolovars
  /\ UNCHANGED sinkvars
  /\ UNCHANGED snapvars

\* _capture_loop: put(frame, block=False) and frame_count += 1; on a full
\* buffer put raises Full, which is ignored, and the frame is lost
CapturePut ==
  /\ cam_pc = "put"
  /\ IF Len(frame_queue) >= maxsize
     THEN /\ last_call' = CaptureCall("Full")
          /\ UNCHANGED <<frame_queue, frame_count>>
     ELSE /\ frame_queue' = Append(frame_queue, frame)
          /\ frame_count' = frame_count + 1
          /\ last_call' = CaptureCall("put")
  /\ frame' = NoFrame
  /\ cam_pc' = "read"
  /\ UNCHANGED <<device, configured, camera_index, capture, capture_opened,
                 stopped, captured, got, reads, cam_stop_pc>>
  /\ UNCHANGED sysrest
  /\ UNCHANGED amvars
  /\ UNCHANGED yolovars
  /\ UNCHANGED sinkvars
  /\ UNCHANGED snapvars

\* get_frame(timeout): the oldest frame in the buffer, or None when the
\* buffer stays empty for the whole timeout
GetFrame ==
  /\ IF frame_queue # <<>>
     THEN /\ got' = Head(frame_queue)
          /\ frame_queue' = Tail(frame_queue)
          /\ reads' = reads + 1
          /\ last_call' = Call("get_frame", None, "frame", None)
     ELSE /\ got' = NoFrame
          /\ last_call' = Call("get_frame", None, "None", None)
          /\ UNCHANGED <<frame_queue, reads>>
  /\ UNCHANGED <<device, configured, camera_index, capture, capture_opened,
                 stopped, frame_count, cam_pc, frame, captured, cam_stop_pc>>
  /\ UNCHANGED sysrest
  /\ UNCHANGED amvars
  /\ UNCHANGED yolovars
  /\ UNCHANGED sinkvars
  /\ UNCHANGED snapvars

\* the Camera with its producer thread and one reader
InitCamera ==
  /\ InitAlert
  /\ telegram_bot = FALSE

NextCamera ==
  \/ CamStart
  \/ CaptureRead
  \/ CaptureReturn
  \/ CaptureFull
  \/ CaptureEvict
  \/ CapturePut
  \/ GetFrame

SpecCamera == InitCamera /\ [][NextCamera]_vars

\* the producer thread is alive: started and not yet out of its loop
thread_is_alive == cam_pc \notin {"none", "done"}

\* self.thread.join(timeout=2.0) returns: the producer has left its loop,
\* or the 2 seconds ran out while the producer sat in capture.read()
join_returns == cam_pc \in {"done", "reading"}

\* is_opened(): a capture that is open, a live producer and no stop
is_opened ==
  /\ capture # NoIndex
  /\ capture_opened
  /\ thread_is_alive
  /\ ~stopped

\* stop(), the capture is released and forgotten, the buffer emptied
release_and_drain ==
  /\ capture' = NoIndex
  /\ capture_opened' = FALSE
  /\ frame_queue' = <<>>

\* stop() up to the join: nothing is done when stopped is already set;
\* otherwise stopped is set and a live producer is joined; with no live
\* producer the call goes through to its end
CamStopBegin ==
  /\ cam_stop_pc = "idle"
  /\ IF stopped
     THEN /\ last_call' = Call("stop", None, "None", "already")
          /\ UNCHANGED <<capture, capture_opened, stopped, frame_queue,
                         cam_stop_pc>>
     ELSE /\ stopped' = TRUE
          /\ IF thread_is_alive
             THEN /\ cam_stop_pc' = "join"
                  /\ last_call' = Call("stop", None, None, "join")
                  /\ UNCHANGED <<capture, capture_opened, frame_queue>>
             ELSE /\ release_and_drain
                  /\ last_call' = Call("stop", None, "None", "no_thread")
                  /\ UNCHANGED cam_stop_pc
  /\ UNCHANGED <<device, configured, camera_index, frame_count, cam_pc, frame,
                 captured, got, reads>>
  /\ UNCHANGED sysrest
  /\ UNCHANGED amvars
  /\ UNCHANGED yolovars
  /\ UNCHANGED sinkvars
  /\ UNCHANGED snapvars

\* stop() from the return of the join to its end
CamStopEnd ==
  /\ cam_stop_pc = "join"
  /\ join_returns
  /\ release_and_drain
  /\ cam_stop_pc' = "idle"
  /\ last_call' = Call("stop", None, "None",
                       IF cam_pc = "done" THEN "joined" ELSE "timeout")
  /\ UNCHANGED <<device, configured, camera_index, stopped, frame_count, cam_pc,
                 frame, captured, got, reads>>
  /\ UNCHANGED sysrest
  /\ UNCHANGED amvars
  /\ UNCHANGED yolovars
  /\ UNCHANGED sinkvars
  /\ UNCHANGED snapvars

\* the Camera with its producer thread, one reader and stop()
NextStop ==
  \/ NextCamera
  \/ CamStopBegin
  \/ CamStopEnd

SpecStop == InitCamera /\ [][NextStop]_vars

\* Camera.start() on every machine: each device index of one of the four
\* kinds, the Camera constructed with any of the indices
InitStart ==
  /\ InitSys
  /\ yolo_loaded = FALSE
  /\ face_detector = FALSE
  /\ InitAM
  /\ telegram_bot = FALSE
  /\ \E d \in [DeviceIndices -> DeviceKinds], index \in DeviceIndices :
       InitCam(d, index)
  /\ InitYolo
  /\ InitSink

NextStart == CamStart

SpecStart == InitStart /\ [][NextStart]_vars

\* -------------------------------------------------------- YOLODetector
\* the class ids the model's frames contain: person, car, cat and dog
ClassIds == {PERSON_CLASS, 2, 15, 16}

\* _classify_detection(class_id)
classify_detection(class_id) ==
  IF class_id = PERSON_CLASS THEN "person"
  ELSE IF class_id \in ANIMAL_CLASSES THEN "animal"
  ELSE "other"

\* detect(), step 4: the boxes of the wanted classification, counted one
\* by one
RECURSIVE count_classified(_, _)
count_classified(classes, wanted) ==
  IF classes = <<>> THEN 0
  ELSE (IF classify_detection(Head(classes)) = wanted THEN 1 ELSE 0)
       + count_classified(Tail(classes), wanted)

\* the frames the model feeds to detect(): up to MaxBoxes boxes
BoxLists == UNION {[1..n -> ClassIds] : n \in 0..MaxBoxes}

\* detect(frame): counts the person and animal boxes, derives the
\* detection type and the alert level from the two counts, updates the
\* statistics and returns the result dictionary
YoloDetect ==
  /\ inference_count < MaxInferences
  /\ \E classes \in BoxLists :
       LET person_count == count_classified(classes, "person")
           animal_count == count_classified(classes, "animal")
       IN /\ yolo_classes' = classes
          /\ yolo_result' = DetectResult(DetectionTypeOf(person_count, animal_count),
                                         determine_alert_level(person_count, animal_count),
                                         person_count, animal_count)
          /\ yolo_person_detections' =
               yolo_person_detections + (IF person_count > 0 THEN 1 ELSE 0)
          /\ yolo_animal_detections' =
               yolo_animal_detections + (IF animal_count > 0 THEN 1 ELSE 0)
  /\ inference_count' = inference_count + 1
  /\ last_call' = Call("detect", None, "result", None)
  /\ UNCHANGED sysrest
  /\ UNCHANGED amvars
  /\ UNCHANGED camvars
  /\ UNCHANGED sinkvars
  /\ UNCHANGED snapvars

\* detect(frame) with the model call raising: the handler returns the
\* empty result and leaves the statistics alone
YoloDetectRaise ==
  /\ \E classes \in BoxLists : yolo_classes' = classes
  /\ yolo_result' = DetectResult("NONE", "NONE", 0, 0)
  /\ last_call' = Call("detect", None, "result", "raised")
  /\ UNCHANGED <<inference_count, yolo_person_detections, yolo_animal_detections>>
  /\ UNCHANGED sysrest
  /\ UNCHANGED amvars
  /\ UNCHANGED camvars
  /\ UNCHANGED sinkvars
  /\ UNCHANGED snapvars

NextYolo ==
  \/ YoloDetect
  \/ YoloDetectRaise

\* a freshly constructed YOLODetector next to a system that stays idle
InitDetector ==
  /\ InitAlert
  /\ telegram_bot = FALSE

\* the YOLODetector alone, fed with every frame of up to MaxBoxes boxes
SpecYolo == InitDetector /\ [][NextYolo]_vars

\* ------------------------------------------- viewers next to detection
\* loop head and steps 1-2 with the frame taken from the Camera: with
\* camera.is_opened() the loop calls camera.get_frame(timeout=0.5), which
\* removes the oldest frame of the buffer or returns None on an empty one
LoopHeadCamera(t) ==
  /\ pc[t] = "head"
  /\ IF stop_event
     THEN /\ pc' = [pc EXCEPT ![t] = "done"]
          /\ consecutive_empty_frames' = [consecutive_empty_frames EXCEPT ![t] = 0]
          /\ last_call' = LoopCall("stopped")
          /\ UNCHANGED <<frames_read, frame_queue, got, reads>>
     ELSE IF state # "ARMED" /\ state # "ALARM"
     THEN /\ last_call' = LoopCall("head")
          /\ UNCHANGED <<pc, consecutive_empty_frames, frames_read,
                         frame_queue, got, reads>>
     ELSE IF is_opened /\ frame_queue # <<>>
     THEN /\ got' = Head(frame_queue)
          /\ frame_queue' = Tail(frame_queue)
          /\ reads' = reads + 1
          /\ frames_read' = frames_read + 1
          /\ consecutive_empty_frames' =
               [consecutive_empty_frames EXCEPT ![t] = empty_frames_after_success(@)]
          /\ pc' = [pc EXCEPT ![t] = "detect"]
          /\ last_call' = LoopCall("head")
     ELSE /\ consecutive_empty_frames[t] < MaxViewerFailing
          /\ consecutive_empty_frames' =
               [consecutive_empty_frames EXCEPT ![t] = @ + 1]
          /\ pc' = [pc EXCEPT ![t] =
                      IF consecutive_empty_frames[t] + 1 >= max_empty_frames
                      THEN "done" ELSE "head"]
          /\ last_call' = LoopCall(IF consecutive_empty_frames[t] + 1 >= max_empty_frames
                                   THEN "frame_loss" ELSE "no_frame")
          /\ UNCHANGED <<frames_read, frame_queue, got, reads>>
  /\ UNCHANGED <<state, yolo_loaded, face_detector, detection_thread, stop_event,
                 latest_annotated_frame, last_person_snapshot_time,
                 last_animal_snapshot_time, total_detections, person_detections,
                 animal_detections, face_recognition_results,
                 detection_result, frame_id, face_result, face_tasks,
                 snapshot_writes, face_checks, clock, disarm_pc>>
  /\ UNCHANGED <<device, configured, camera_index, capture, capture_opened,
                 stopped, frame_count, cam_pc, frame, captured, cam_stop_pc>>
  /\ UNCHANGED amvars
  /\ UNCHANGED yolovars
  /\ UNCHANGED sinkvars
  /\ UNCHANGED snapvars

\* get_current_frame(): ARMED or ALARM with a published frame returns a copy
\* of latest_annotated_frame; otherwise, with the camera open, the frame
\* comes from camera.get_frame(timeout=0.5), and is the dummy frame when
\* that returns None or the camera is not open
GetCurrentFrame ==
  /\ IF (state = "ARMED" \/ state = "ALARM") /\ latest_annotated_frame # None
     THEN /\ last_call' = Call("get_current_frame", state, "annotated", None)
          /\ UNCHANGED <<frame_queue, got, reads>>
     ELSE IF is_opened /\ frame_queue # <<>>
     THEN /\ got' = Head(frame_queue)
          /\ frame_queue' = Tail(frame_queue)
          /\ reads' = reads + 1
          /\ last_call' = Call("get_current_frame", state, "raw", None)
     ELSE /\ last_call' = Call("get_current_frame", state, "dummy", None)
          /\ UNCHANGED <<frame_queue, got, reads>>
  /\ UNCHANGED <<device, configured, camera_index, capture, capture_opened,
                 stopped, frame_count, cam_pc, frame, captured, cam_stop_pc>>
  /\ UNCHANGED sysrest
  /\ UNCHANGED amvars
  /\ UNCHANGED yolovars
  /\ UNCHANGED sinkvars
  /\ UNCHANGED snapvars

\* the SystemManager with its Camera: one detection thread fed from the
\* camera buffer, and readers calling get_current_frame()
NextViewer ==
  \/ CamStart
  \/ CaptureRead
  \/ CaptureReturn
  \/ CaptureFull
  \/ CaptureEvict
  \/ CapturePut
  \/ ArmOnce
  \/ \E t \in Threads : LoopHeadCamera(t)
  \/ \E t \in Threads : Detect(t)
  \/ \E id \in FrameIds : FaceComplete(id)
  \/ \E id \in FrameIds : FaceFail(id)
  \/ \E t \in Threads : WaitEnd(t)
  \/ \E t \in Threads : ProcessDetection(t)
  \/ GetCurrentFrame

SpecViewer == InitCache /\ [][NextViewer]_vars

\* ------------------------------------------------------------- claims
\* the fields an escalation changes
Escalation == <<state, snapshot_writes, last_person_snapshot_time,
                last_animal_snapshot_time, queue, alert_count,
                total_detections, person_detections, animal_detections>>

C2_UnknownEscalates ==
  [][\A t \in Threads :
       (pc[t] = "wait" /\ pc'[t] # "wait"
          /\ face_recognition_results[frame_id[t]] # NoResult
          /\ unknown_count(face_recognition_results[frame_id[t]]) > 0)
         => pc'[t] = "process"]_vars

C4_TriggerOnlyFromArmed ==
  [][(TriggerAlarm \/ \E t \in Threads :
                        ProcessDetection(t) /\ detection_result[t][1] > 0)
       => IF state = "ARMED" THEN state' = "ALARM" ELSE state' = state]_vars

C6_DisarmEndsDisarmed ==
  last_call.op = "disarm" => (state = "DISARMED" /\ last_call.ret = "True")

\* disarm() has returned from ALARM after a join that timed out
C6_Witness ==
  /\ last_call.op = "disarm"
  /\ last_call.info = "timeout"
  /\ last_call.pre = "ALARM"
  /\ AliveThreads # {}
  /\ state = "DISARMED"

\* C7: when the detection loop stops on the tenth consecutive failed frame
\* fetch, the state is ERROR.
C7_FrameLossError ==
  (last_call.op = "_detection_loop" /\ last_call.info = "frame_loss")
    => state = "ERROR"

\* C8: processing a person detection puts exactly one alert into the
\* AlertManager queue, with the level of the primary result.
C8_EscalationEnqueues ==
  [][\A t \in Threads :
       (ProcessDetection(t) /\ detection_result[t][1] > 0)
         => /\ Cardinality(queue') = Cardinality(queue) + 1
            /\ \E a \in queue' \ queue :
                 a.level = determine_alert_level(detection_result[t][1],
                                                 detection_result[t][2])]_vars

\* C9 (gate rule): the primary classifier runs, and a person detection is
\* processed, only while the state is ARMED or ALARM.
C9_GateRule ==
  [][\A t \in Threads :
       (Detect(t) \/ (ProcessDetection(t) /\ detection_result[t][1] > 0))
         => state \in {"ARMED", "ALARM"}]_vars

\* C10 (authorized-only suppression): when the identity result is there at
\* the end of the wait and reports authorized persons only, the iteration
\* ends there: the loop is back at its head and the state, the snapshots,
\* the alert queue and the detection counters are unchanged; the steps of
\* the iteration before it change none of them either.
C10_AuthorizedSuppressed ==
  [][\A t \in Threads :
       /\ (pc[t] = "wait" /\ pc'[t] # "wait"
             /\ face_recognition_results[frame_id[t]] # NoResult
             /\ face_recognition_results[frame_id[t]][1] > 0
             /\ face_recognition_results[frame_id[t]][2] = 0)
            => (pc'[t] = "head" /\ UNCHANGED Escalation)
       /\ (pc[t] = "detect" /\ pc'[t] # "detect") => UNCHANGED Escalation]_vars

\* an iteration has just been suppressed on an authorized-only result
C10_Witness ==
  /\ last_call.op = "_detection_loop"
  /\ last_call.info = "authorized"
  /\ \A id \in FrameIds :
       face_recognition_results[id] # NoResult
         => (face_recognition_results[id][1] > 0 /\ face_recognition_results[id][2] = 0)
  /\ total_detections = 0

\* C11: clear_alarm() moves the state to ARMED from ALARM and leaves every
\* other state (DISARMED, ARMED, ERROR) as it is.
C11_ClearOnlyFromAlarm ==
  [][ClearAlarm
       => IF state = "ALARM" THEN state' = "ARMED" ELSE state' = state]_vars

\* C12 (priority ordering): when the consumer takes an alert from the queue,
\* no alert left in the queue has a strictly higher level; from a queue that
\* holds the alerts LOW, CRITICAL, LOW (put in that order, none taken yet) it
\* takes the CRITICAL one, and with no cooldown in force the alert taken is
\* the one handed to _send_alert.
C12_PriorityOrdering ==
  [][/\ (AmGet /\ am_pc' = "check")
          => /\ \A b \in queue' : LevelValue(b.level) <= LevelValue(alert'.level)
             /\ (queue = {[id |-> 1, level |-> "LOW"],
                          [id |-> 2, level |-> "CRITICAL"],
                          [id |-> 3, level |-> "LOW"]})
                  => alert'.level = "CRITICAL"
     /\ (AmCheck /\ last_alert_time = NoTime)
          => (am_pc' = "send" /\ alert' = alert /\ queue' = queue)]_vars

\* of the alerts LOW, CRITICAL, LOW the CRITICAL one was delivered first
C12_Witness ==
  /\ last_call.op = "_send_alert"
  /\ last_call.ret = "True"
  /\ last_call.info = "CRITICAL"
  /\ alerts_sent = 1
  /\ alerts_dropped = 0
  /\ queue = {[id |-> 1, level |-> "LOW"], [id |-> 3, level |-> "LOW"]}

C15_StopDrains ==
  last_call.op = "stop" => (last_call.ret = None /\ queue = {})

\* C16 (delivery outcome accounting): passing the cooldown gate leads to one
\* call of _send_alert and counts nothing by itself; when the sink returns
\* True, last_alert_time is set to now and alerts_sent grows by 1; when the
\* sink returns False or raises, or there is no sink, alerts_dropped grows by
\* 1 and last_alert_time and alerts_sent stay; either way the alert is not put
\* back; nothing but such an attempt changes the two counters.
C16_DeliveryAccounting ==
  [][/\ (AmCheck /\ am_pc' = "send")
          => (alert' = alert /\ alerts_sent' = alerts_sent
                /\ alerts_dropped' = alerts_dropped)
     /\ \A sink \in SinkOutcomes :
          Send(sink)
            => /\ queue' = queue
               /\ alert' = NoAlert
               /\ am_pc' = "get"
               /\ IF telegram_bot /\ sink = "True"
                  THEN /\ last_alert_time' = am_clock
                       /\ alerts_sent' = alerts_sent + 1
                       /\ alerts_dropped' = alerts_dropped
                  ELSE /\ alerts_dropped' = alerts_dropped + 1
                       /\ last_alert_time' = last_alert_time
                       /\ alerts_sent' = alerts_sent
     /\ (am_pc # "send")
          => (alerts_sent' = alerts_sent /\ alerts_dropped' = alerts_dropped
                /\ last_alert_time' = last_alert_time)]_vars

\* with a sink configured, one send has succeeded and a later one has failed
C16_Witness ==
  /\ telegram_bot
  /\ last_call.op = "_send_alert"
  /\ last_call.ret = "False"
  /\ alerts_sent = 1
  /\ alerts_dropped = 1
  /\ last_alert_time # NoTime

\* C17: add_alert is always accepted, and once the add_alert calls made so
\* far have all returned, the received counter alert_count equals the number
\* of alerts they have put into the queue.
C17_AddCounted ==
  (\A c \in Callers : add_local[c] = NoCount) => alert_count = puts

\* C18 (catch and continue): a detection loop ends only on a set stop event
\* or on the tenth consecutive failed frame fetch; an exception raised inside
\* an iteration does not end it.
C18_CatchAndContinue ==
  [][\A t \in Threads :
       (pc[t] \in {"head", "detect", "wait", "process"} /\ pc'[t] = "done")
         => \/ stop_event
            \/ (pc[t] = "head"
                  /\ consecutive_empty_frames[t] + 1 >= max_empty_frames)]_vars

\* C19 (animal only): a detection with no person and at least one animal has
\* alert level LOW; processing it leaves the state as it is, puts no alert
\* into the queue, touches nothing of the person snapshots, and spawns an
\* animal snapshot write only when at least 3 x snapshot_cooldown seconds
\* have passed since the last animal snapshot (whose time it then records).
C19_AnimalOnly ==
  [][\A t \in Threads :
       (ProcessDetection(t) /\ detection_result[t][1] = 0 /\ detection_result[t][2] > 0)
         => /\ determine_alert_level(detection_result[t][1], detection_result[t][2]) = "LOW"
            /\ state' = state
            /\ queue' = queue
            /\ alert_count' = alert_count
            /\ last_person_snapshot_time' = last_person_snapshot_time
            /\ snapshot_writes'["person"] = snapshot_writes["person"]
            /\ \/ /\ snapshot_writes'["animal"] = snapshot_writes["animal"] + 1
                  /\ clock' * TickLen - last_animal_snapshot_time >= 3 * snapshot_cooldown
                  /\ last_animal_snapshot_time' = clock' * TickLen
               \/ /\ snapshot_writes'["animal"] = snapshot_writes["animal"]
                  /\ last_animal_snapshot_time' = last_animal_snapshot_time]_vars

\* two animal-only detections were processed while ARMED: the first spawned
\* a snapshot write, the second fell inside the animal cooldown
C19_Witness ==
  /\ last_call.op = "_process_detection"
  /\ state = "ARMED"
  /\ total_detections = 2
  /\ person_detections = 0
  /\ animal_detections = 2
  /\ snapshot_writes["animal"] = 1
  /\ snapshot_writes["person"] = 0

\* the buffer after n insertions and no read: the last min(n, maxsize)
\* frames, oldest first
LatestFrames(n) ==
  IF n >= maxsize
  THEN [i \in 1..maxsize |-> n - maxsize + i]
  ELSE [i \in 1..n |-> i]

\* C14 (latest-wins buffering): with one producer loop and capacity 2, the
\* producer always inserts the frame it has just read (put never finds the
\* buffer full); get_frame returns one of the 2 frames inserted last; and as
\* long as no frame has been handed out, after N >= 1 insertions the buffer
\* holds exactly the min(N, 2) newest frames in arrival order.
C14_LatestWins ==
  [][/\ CapturePut
          => (frame_queue' = Append(frame_queue, frame)
                /\ frame_count' = frame_count + 1)
     /\ (GetFrame /\ got' # NoFrame) => got' > frame_count - maxsize
     /\ (reads' = 0 /\ cam_pc' = "read" /\ frame_count' >= 1)
          => frame_queue' = LatestFrames(frame_count')]_vars

\* three frames were captured with no read in between, then get_frame
\* returned the second of them and left the third in the buffer
C14_Witness ==
  /\ last_call.op = "get_frame"
  /\ got = 2
  /\ reads = 1
  /\ frame_count = 3
  /\ frame_queue = <<3>>

\* a device index opens and returns a readable frame
opens_and_reads(i) == device[i] \in {"busy", "ok"}

\* a device index opens, returns a readable frame and opens again
opens_reads_reopens(i) == device[i] = "ok"

\* start() selects by the test Accept: the configured index if it passes,
\* else the first of the indices 0..4 other than it that passes, and then
\* returns True with the producer thread started; it returns False, with no
\* thread started, when none passes
StartSelects(Accept(_)) ==
  LET rest == {i \in 0..(ProbeCount - 1) : i # camera_index /\ Accept(i)}
  IN  IF Accept(camera_index)
      THEN /\ last_call'.ret = "True"
           /\ camera_index' = camera_index
           /\ cam_pc' = "read"
      ELSE IF rest # {}
      THEN /\ last_call'.ret = "True"
           /\ camera_index' = Min(rest)
           /\ cam_pc' = "read"
      ELSE /\ last_call'.ret = "False"
           /\ camera_index' = camera_index
           /\ cam_pc' = cam_pc

\* C20 as stated: start() selects the first index, configured one first,
\* that opens and returns a readable frame.
C20_StartFirstReadable == [][CamStart => StartSelects(opens_and_reads)]_vars

\* C20 amended: start() selects the first index, configured one first, that
\* opens, returns a readable frame and opens again for use after the test
\* capture is released; it returns False, starting no producer thread, iff
\* no index does.
C20_StartFirstUsable == [][CamStart => StartSelects(opens_reads_reopens)]_vars

\* configured index 1 returns no frame, index 0 opens and reads but does not
\* open again, index 2 works: start() returned True with camera_index 2
C20_Witness ==
  /\ last_call.op = "start"
  /\ last_call.ret = "True"
  /\ configured = 1
  /\ device[1] = "noframe"
  /\ device[0] = "busy"
  /\ device[2] = "ok"
  /\ camera_index = 2
  /\ cam_pc = "read"

\* C21 (stop leaves nothing behind): from the return of stop() to the next
\* start() the capture is released, is_opened() is False and the buffer is
\* empty, also when the 2 second join ran out while the producer sat in a
\* device read.
C21_StopLeavesEmpty ==
  (stopped /\ cam_stop_pc = "idle")
    => (capture = NoIndex /\ ~is_opened /\ frame_queue = <<>>)

\* C22 (arm/disarm report their result): the "success" value the /api/arm
\* and /api/disarm handlers answer with equals the boolean that arm() or
\* disarm() returned to the handler, so an arm() that returned False is
\* answered with success false.
C22_ApiReportsResult ==
  (last_call.op \in {"arm", "disarm"} /\ last_call.ret \in {"True", "False"})
    => api_success(last_call.ret) = last_call.ret

LevelAndType(person_seen, animal_seen) ==
  IF person_seen /\ animal_seen THEN <<"HIGH", "BOTH">>
  ELSE IF person_seen THEN <<"CRITICAL", "PERSON">>
  ELSE IF animal_seen THEN <<"LOW", "ANIMAL">>
  ELSE <<"NONE", "NONE">>

\* C24 (alert level from the counts): in every result of detect() the alert
\* level depends only on whether person_count > 0 and whether
\* animal_count > 0: both give HIGH, a person alone CRITICAL, an animal alone
\* LOW, neither NONE; and the detection type of the same result is BOTH,
\* PERSON, ANIMAL and NONE respectively.
C24_AlertLevelOfCounts ==
  yolo_result.type # None
    => <<yolo_result.alert_level, yolo_result.type>>
         = LevelAndType(yolo_result.person_count > 0, yolo_result.animal_count > 0)

\* detect() was given a frame with two persons, a car and no animal and
\* answered CRITICAL / PERSON, after an earlier frame with an animal
C24_Witness ==
  /\ last_call.op = "detect"
  /\ yolo_classes = <<PERSON_CLASS, 2, PERSON_CLASS>>
  /\ yolo_result = DetectResult("PERSON", "CRITICAL", 2, 0)
  /\ inference_count = 2
  /\ yolo_animal_detections = 1

\* C25 (at most one detection loop): under every interleaving of arm(),
\* disarm(), trigger_alarm() and clear_alarm() calls, arm() in state ALARM
\* and arm() after a disarm() whose join timed out included, at most one
\* detection-loop thread is alive.
C25_OneDetectionLoop == Cardinality(AliveThreads) <= 1

\* C26 (disarm is sticky): after disarm() has returned the state stays
\* DISARMED until the next arm(): a detection iteration that was in progress
\* when disarm() was called, and that the join did not wait out, does not
\* change the state when it goes on.
C26_DisarmSticky ==
  [][\A t \in Threads :
       (state = "DISARMED" /\ disarm_pc = "idle" /\ ProcessDetection(t))
         => state' = "DISARMED"]_vars

\* C27 (armed means monitored): while the state is ARMED or ALARM and a
\* primary classifier is loaded a detection-loop thread is alive; stated for
\* the case it is about: when the last detection loop has ended by itself
\* on sustained frame loss, the state is no longer ARMED or ALARM.
C27_ArmedMeansMonitored ==
  (last_call.op = "_detection_loop" /\ last_call.info = "frame_loss"
     /\ yolo_loaded /\ AliveThreads = {})
    => state \notin {"ARMED", "ALARM"}

\* C28 (cooperative cancellation): once disarm() has set the stop event for
\* the detection thread it then joins, that thread eventually sees the
\* signal and ends, also when the 5 second join runs out before the thread
\* is back at the head of its loop.
C28_StopIsObserved ==
  \A t \in Threads :
    (disarm_pc = "join" /\ detection_thread = t /\ stop_event) ~> (pc[t] = "done")

CategoryCooldown(c) == IF c = "person" THEN snapshot_cooldown ELSE 3 * snapshot_cooldown

\* C30 (evidence cooldown per category): a snapshot writer of a category is
\* started only when the category's cooldown (person: snapshot_cooldown,
\* animal: 3 x snapshot_cooldown) has passed since that category's recorded
\* time, which is set before the writer starts, each category with its own
\* timer; hence no two writers of the same category are started closer
\* together than that category's cooldown.
C30_EvidenceCooldown ==
  \A c \in {"person", "animal"} :
    \A i \in 2..Len(snapshot_spawned[c]) :
      (snapshot_spawned[c][i] - snapshot_spawned[c][i - 1]) * TickLen
        >= CategoryCooldown(c)

C32_BoundedCache ==
  /\ [](Cardinality(CacheKeys(face_recognition_results)) <= 5)
  /\ [][\A id \in FrameIds :
          (id \in face_tasks /\ id \notin face_tasks'
           /\ face_recognition_results' # face_recognition_results
           /\ Cardinality(CacheKeys(face_recognition_results) \cup {id}) > 5) =>
             LET keys == CacheKeys(face_recognition_results) \cup {id}
                 oldest == CHOOSE k \in keys : \A j \in keys : k <= j
             IN  /\ CacheKeys(face_recognition_results') = keys \ {oldest}
                 /\ \A k \in CacheKeys(face_recognition_results') \ {id} :
                      face_recognition_results'[k] = face_recognition_results[k]
       ]_vars

\* the sixth result arrives with five in the cache: request id 1 is gone and
\* ids 2..6 are kept
C32_Witness ==
  /\ face_checks = 6
  /\ CacheKeys(face_recognition_results) = 2..6
  /\ last_call.op = "run_face_recognition_async"

\* C33 (frames without a person are published): an iteration whose primary
\* result has no person starts no identity check and ends with a viewable
\* frame published by that iteration: the clean frame when nothing was
\* detected, the frame with the animal boxes drawn when animals were.
C33_NoPersonFramePublished ==
  [][\A t \in Threads :
       /\ (pc[t] = "detect" /\ pc'[t] = "wait") => detection_result'[t][1] > 0
       /\ (pc[t] = "detect" /\ pc'[t] = "head" /\ yolo_loaded) =>
            latest_annotated_frame' = "clean"
       /\ (pc[t] = "process" /\ pc'[t] = "head" /\ detection_result[t][1] = 0) =>
            latest_annotated_frame' = "yolo"
    ]_vars

C35_OnlySustainedLoss ==
  [][\A t \in Threads :
       /\ (pc[t] = "head" /\ pc'[t] = "detect") => consecutive_empty_frames'[t] = 0
       /\ (pc[t] = "head" /\ consecutive_empty_frames'[t] # consecutive_empty_frames[t]
           /\ pc'[t] # "detect" /\ ~stop_event) =>
            /\ consecutive_empty_frames'[t] = consecutive_empty_frames[t] + 1
            /\ (pc'[t] = "done") <=> (consecutive_empty_frames'[t] = 10)
            /\ (pc'[t] = "head") <=> (consecutive_empty_frames'[t] < 10)
       /\ (pc[t] = "head" /\ pc'[t] = "done" /\ ~stop_event) =>
            consecutive_empty_frames[t] = 9
    ]_vars

\* the loop ended on the tenth failure in a row, after fetches that succeeded
C35_Witness ==
  \E t \in Threads :
    /\ pc[t] = "done"
    /\ last_call.info = "frame_loss"
    /\ consecutive_empty_frames[t] = 10
    /\ frames_read > 0

\* alerts the consumer holds between dequeue and requeue or delivery
HeldByConsumer == IF alert = NoAlert THEN 0 ELSE 1

\* C36 (alert conservation): whenever no caller is inside add_alert,
\* alert_count equals alerts_sent + alerts_dropped + the alerts in the queue
\* + the alert held by the consumer (+ the alerts cleared, of which there are
\* none: clear_queue never gets as far as emptying the queue).
C36_AlertConservation ==
  (\A c \in Callers : add_local[c] = NoCount) =>
    alert_count = alerts_sent + alerts_dropped + Cardinality(queue) + HeldByConsumer

\* the alerts inside the AlertManager: queued or held by the consumer
AlertsInside == queue \cup (IF alert = NoAlert THEN {} ELSE {alert})

\* C37 (at-most-once delivery): an alert handed to _send_alert is in no
\* other place at that moment and is gone afterwards (neither queued nor
\* held), and an alert that enters the AlertManager is a new one, never one
\* that was inside before; so no alert reaches the sink twice, whatever the
\* number of cooldown requeues and of start() calls, and a start() with a
\* live consumer changes nothing.
C37_AtMostOnce ==
  /\ [](alert # NoAlert => alert \notin queue)
  /\ [][/\ (am_pc = "send" /\ am_pc' # "send") =>
             (alert \notin queue' /\ alert' = NoAlert /\ queue' = queue)
        /\ \A a \in AlertsInside' : a \in AlertsInside \/ a.id > puts
        /\ (last_call'.op = "start" /\ am_pc \in {"get", "check", "send"}) =>
             (am_pc' = am_pc /\ alert' = alert /\ queue' = queue)
       ]_vars

\* start() was called again with the consumer alive, after one delivery and
\* with another alert waiting inside the cooldown
C37_Witness ==
  /\ last_call.op = "start"
  /\ last_call.info = "running"
  /\ alerts_sent = 1
  /\ queue # {}
  /\ is_in_cooldown(am_clock)

\* stop() has returned and a start() after it has created the processing
\* thread that is alive now
Restarted == am_stop_event /\ am_stop_pc = "idle" /\ processing_thread_alive

\* C38 (AlertManager restart): an alert enqueued after stop() and a
\* following start() eventually leaves the AlertManager, delivered or
\* dropped, when the sink answers and the threads are scheduled.
C38_RestartDelivers ==
  \A id \in 1..MaxAlerts :
    (Restarted /\ last_call.op = "add_alert" /\ puts = id
     /\ \E a \in queue : a.id = id)
      ~> ~(\E a \in AlertsInside : a.id = id)

\* C39 (a failed arm leaves the state unchanged): whenever arm() returns
\* False the state is the state before the call and the call has started no
\* detection thread.
C39_FailedArmKeepsState ==
  [][(last_call'.op = "arm" /\ last_call'.ret = "False") =>
       (state' = state /\ pc' = pc)]_vars

\* C40 (viewers do not compete with detection for frames): a call of
\* get_current_frame() made while the state is ARMED or ALARM and a
\* detection loop is running leaves the camera buffer as it is.
C40_ViewerLeavesBuffer ==
  [][(last_call'.op = "get_current_frame"
      /\ (state = "ARMED" \/ state = "ALARM")
      /\ AliveThreads # {}) =>
       frame_queue' = frame_queue]_vars

====
